---- MODULE Spec2Model ----
(***************************************************************************)
(* RDMATransporter (src/src/transport/rdma_transporter.cpp): the engine    *)
(* life cycle (Start, Stop, ~RDMATransporter), the perf-metrics worker,    *)
(* the synchronous data path (Send, Receive with the retry wrapper) and    *)
(* memory registration, run by caller threads against a backend whose      *)
(* results are chosen nondeterministically.                                *)
(***************************************************************************)
EXTENDS Integers, Sequences, FiniteSets, TLC

(* ------------------------------ bounds --------------------------------- *)
\* Backend contexts utrans_setup may create over the engine's life (Start
\* calls whose context setup succeeds).
MaxStarts == 2
\* Send / Receive / RegisterMemory / DeregisterMemory calls made in total.
MaxCalls == 2
\* Largest configured retry count (TRANSPORT_SEND/RECEIVE_RETRY_COUNT).
MaxRetry == 2
\* Clock advances, each of one activity window.
MaxTicks == 1
\* kBindPortMaxRetry: ports a scan-mode Start may try.  The constant is used by
\* SetupRpcServerWithRetry but its value is defined outside the transporter
\* source, so it is a parameter here.
kBindPortMaxRetry == 3
\* RegisterMemory / DeregisterMemory calls of the registration specification.
MaxMemCalls == 4

\* Caller threads; MainThread is the caller of the single-caller specification.
Threads == {"t1", "t2"}
MainThread == "t1"
\* Buffers a caller may register.
Regions == {"bufA"}
\* The buffers of the registration specification.
AllRegions == {"bufA", "bufB"}

(* ------------------------- program constants --------------------------- *)
\* utrans_ctx_t* ctx_{nullptr}
NullCtx == 0
\* "if (now - last_activity < 1000)"
kPerfActivityWindowMs == 1000
\* static constexpr int kRdmaPortStart = 51010
kRdmaPortStart == 51010
\* std::uniform_int_distribution<> dis(0, 1000)
kRandomOffsetMax == 1000
\* int rdma_numa_node_ = -1
kNoNumaNode == -1
\* int write_timeout_ms_{-1}; int read_timeout_ms_{-1}: wait forever
kWaitForever == -1
\* "trans_conf_t conf{4, 1024 * 1024, write_timeout_ms_};"
kTransferPollers == 4
kTransferChunk == 1024 * 1024
\* system_clock at construction: any epoch value past one activity window,
\* so that last_send_receive_time_{0} never counts as recent activity.
ClockStart == 2 * kPerfActivityWindowMs
TickMs == kPerfActivityWindowMs

VARIABLES
    \* ---- RDMATransporter fields
    ctx_,                          \* utrans_ctx_t*: NullCtx or a context id
    is_running_,                   \* std::atomic<bool> (BaseDataTransport)
    perf_logging_thread_running_,  \* std::atomic<bool>
    perf_thread_joinable,          \* perf_logging_thread_.joinable()
    close_mutex_,                  \* "free" or the thread holding it
    last_send_receive_time_,       \* std::atomic<long long>, ms
    send_retry_count,              \* options_: TRANSPORT_SEND_RETRY_COUNT
    recv_retry_count,              \* options_: TRANSPORT_RECEIVE_RETRY_COUNT
    local_server_port_,            \* int, GetBindPort()
    rdma_numa_node_,               \* int, NUMA node of the primary NIC
    nic_nodes_,                    \* NUMA nodes of the selected NICs, in order
    read_timeout_ms_,              \* int, TRANSFER_ENGINE_READ_TIMEOUT_MS
    write_timeout_ms_,             \* int, TRANSFER_ENGINE_WRITE_TIMEOUT_MS
    \* ---- the perf worker (PerfMetricsLoggingThread)
    perf_pc,                       \* "none","loop","sleep","check","print","exited"
    perf_ctx,                      \* ctx_ as read by "if (ctx_ != nullptr)"
    \* ---- caller threads
    pc,                            \* per thread: position in the current call
    call,                          \* per thread: arguments and locals of the call
    \* ---- backend (utrans) state
    created,                       \* contexts utrans_setup has created so far
    cleanCount,                    \* per context: utrans_clean calls on it
    regs,                          \* regions registered with the backend
    \* ---- environment
    now,                           \* system_clock, ms
    lifecycle,                     \* "alive", "destroying", "destroyed"
    crashed,                       \* std::terminate was called
    callsLeft,                     \* data-path calls the callers may still make
    topology_initialized,          \* the process-wide GpuTopologyManager's
                                   \* IsInitialized()
    \* ---- observers (history of what happened)
    printOnCleaned,                \* utrans_print_perf_info ran on a cleaned/null ctx
    cleanWithPerfAlive,            \* utrans_clean ran while the worker was not joined
    startsOK,                      \* Start calls that set is_running_
    teardowns,                     \* Stop calls that passed the locked check
    stoppedCtx,                    \* ctx_ when a tearing-down Stop returned; NullCtx
                                   \* before that and once a later Start succeeds
    memLog                         \* per region: RegisterMemory calls that returned
                                   \* true, DeregisterMemory calls that returned
                                   \* true, and whether one did since the last
                                   \* RegisterMemory that returned true

vars == << ctx_, is_running_, perf_logging_thread_running_, perf_thread_joinable,
           close_mutex_, last_send_receive_time_, send_retry_count, recv_retry_count,
           local_server_port_, rdma_numa_node_, nic_nodes_, read_timeout_ms_,
           write_timeout_ms_, perf_pc, perf_ctx, pc, call, created, cleanCount, regs,
           now, lifecycle,
           crashed, callsLeft, topology_initialized, printOnCleaned,
           cleanWithPerfAlive, startsOK, teardowns, stoppedCtx, memLog >>

engineVars == << ctx_, is_running_, perf_logging_thread_running_, perf_thread_joinable,
                 close_mutex_, last_send_receive_time_, send_retry_count,
                 recv_retry_count, local_server_port_, rdma_numa_node_, nic_nodes_,
                 read_timeout_ms_, write_timeout_ms_ >>
perfVars == << perf_pc, perf_ctx >>
backendVars == << created, cleanCount, regs >>
envVars == << now, lifecycle, crashed, callsLeft, topology_initialized >>
obsVars == << printOnCleaned, cleanWithPerfAlive, startsOK, teardowns,
              stoppedCtx, memLog >>

(* --------------------------- call records ------------------------------ *)
\* No transfer has been submitted.
NoRequest == [opcode |-> "none", pollers |-> 0, chunk |-> 0, timeout |-> 0]

\* A host whose topology cannot be read and that has no CUDA device.
NoGpu == [initOK |-> FALSE, cudaOK |-> FALSE, dev |-> -1, rank |-> 2, max |-> 1]

\* No device selector has been called.
NoSelection == [selector |-> "none"]

\* Locals of one call; every counter is per call and starts at zero.
NoCall ==
    [ op |-> "none", buf |-> TRUE, len |-> 0, rbuf |-> TRUE, region |-> "none",
      tnow |-> 0, retryN |-> 0, attempts |-> 0, retries |-> 0, sleeps |-> 0,
      queries |-> 0, subs |-> 0, obtained |-> 0, released |-> 0, bfails |-> 0,
      qfails |-> 0,
      regcalls |-> 0, nrAt |-> 0, exc |-> "none", ret |-> "none",
      entRunning |-> FALSE,
      \* Start: the listener options, the ports handed to utrans_setup_rpcsrv
      \* in order, the perf option read and whether a worker was created
      fixed |-> FALSE, optPort |-> 0, offset |-> 0, tried |-> << >>,
      perfOpt |-> FALSE, spawned |-> FALSE,
      \* RegisterMemory / DeregisterMemory: the arguments, the backend
      \* function called with its node / gpu argument, the regions before
      isVram |-> FALSE, nodeArg |-> 0, backendFn |-> "none", backendArg |-> 0,
      regsBefore |-> {},
      \* whether the backend gave a registration handle; utrans_dereg_mem's code
      mrOK |-> FALSE, rc |-> 0,
      \* Start: ctx_ and local_server_port_ at entry, whether utrans_setup
      \* succeeded, and what Start did, in order
      ctxBefore |-> 0, portBefore |-> 0, ctxOK |-> FALSE, steps |-> << >>,
      \* Send / Receive: stores to last_send_receive_time_, and the request and
      \* configuration of the last utrans_exec_transfer
      stores |-> 0, req |-> NoRequest,
      \* GetBindPort: the value returned
      port |-> 0,
      \* Start: the device selector called, and whether utrans_setup was
      \* given a device pattern ("set") or nullptr ("null")
      sel |-> NoSelection, devPatt |-> "none",
      \* Start: whether the selector returned any device
      selected |-> FALSE ]

\* No registration call on a region has returned true yet.
NoMemLog == [regOK |-> 0, deregOK |-> 0, gone |-> FALSE]

NewCall(opname) == [ NoCall EXCEPT !.op = opname ]

\* A data-path call (Send, Receive, RegisterMemory, DeregisterMemory); it
\* notes whether the engine was Running when the call was made.
DataCall(opname) == [ NoCall EXCEPT !.op = opname, !.entRunning = is_running_ ]

\* A caller may enter a call: the object is alive and the thread is idle.
CanCall(t) == /\ ~crashed
              /\ lifecycle = "alive"
              /\ pc[t] = "idle"

\* The engine as constructed (the member initialisers of the class), with
\* the << send, receive >> retry counts of options_ drawn from retryPairs and
\* `calls` data-path calls to come.
InitWith(retryPairs, calls) ==
    /\ ctx_ = NullCtx
    /\ is_running_ = FALSE
    /\ perf_logging_thread_running_ = FALSE
    /\ perf_thread_joinable = FALSE
    /\ close_mutex_ = "free"
    /\ last_send_receive_time_ = 0
    /\ \E p \in retryPairs : /\ send_retry_count = p[1]
                             /\ recv_retry_count = p[2]
    /\ local_server_port_ = 0
    /\ rdma_numa_node_ = kNoNumaNode
    /\ nic_nodes_ = << >>
    /\ read_timeout_ms_ = kWaitForever
    /\ write_timeout_ms_ = kWaitForever
    /\ perf_pc = "none"
    /\ perf_ctx = NullCtx
    /\ pc = [t \in Threads |-> "idle"]
    /\ call = [t \in Threads |-> NoCall]
    /\ created = 0
    /\ cleanCount = [c \in 1..MaxStarts |-> 0]
    /\ regs = {}
    /\ now = ClockStart
    /\ lifecycle = "alive"
    /\ crashed = FALSE
    /\ callsLeft = calls
    /\ topology_initialized = FALSE
    /\ printOnCleaned = FALSE
    /\ cleanWithPerfAlive = FALSE
    /\ startsOK = 0
    /\ teardowns = 0
    /\ stoppedCtx = NullCtx
    /\ memLog = [r \in AllRegions |-> NoMemLog]


(* ---------------------------- retry runner ---------------------------- *)
\* RetryUtils::Retry under CountingAndSleepRetryPolicy(retry_count, sleep),
\* and under CountingRetry(retry_count), which is the same with no sleep:
\* a NonRetryableException is rethrown at once; any other exception is
\* followed by a sleep and another attempt while fewer than retry_count
\* retries have been made, and surfaces once they are used up.
RetryDecision(e, retriesDone, retryCount) ==
    IF e = "NonRetryable" THEN "surface"
    ELSE IF retriesDone < retryCount THEN "retry" ELSE "surface"

(* ------------------------------- Start --------------------------------- *)
\* What the process offers SelectRdmaDevices: whether
\* GpuTopologyManager::Initialize succeeds when it is tried, whether
\* cudaGetDevice succeeds and the index it gives, role_rank, and the
\* TRANSFER_ENGINE_MAX_RDMA_DEVICES option.
GpuEnvs ==
    { [initOK |-> i, cudaOK |-> c, dev |-> d, rank |-> k, max |-> m] :
        i \in BOOLEAN, c \in BOOLEAN, d \in {-1, 0, 1}, k \in {2, 3},
        m \in {1, 2} }

\* A selector choice that takes any index cudaGetDevice reports.
SelectRdmaDevicesAnyIndex(gpu, initialized) ==
    [selector |-> IF gpu.cudaOK THEN "SelectRdmaDevices"
                  ELSE "SelectRdmaDevicesByRank",
     arg |-> IF gpu.cudaOK THEN gpu.dev ELSE gpu.rank,
     max |-> gpu.max,
     initTried |-> ~initialized,
     initOK |-> initialized \/ gpu.initOK,
     env |-> gpu]

\* RDMATransporter::SelectRdmaDevices: Initialize the topology manager if it
\* is not initialized (a failure is logged, nothing else), then
\* "if (cuda_result == cudaSuccess && current_cuda_device >= 0)" call
\* SelectRdmaDevices(current_cuda_device, max_devices), otherwise
\* SelectRdmaDevicesByRank(rank_id, max_devices).  The record holds the
\* selector called with its arguments, whether Initialize was tried, whether
\* the manager is initialized afterwards, and the environment met.
SelectRdmaDevices(gpu, initialized) ==
    LET byGpu == gpu.cudaOK /\ gpu.dev >= 0
    IN [selector |-> IF byGpu THEN "SelectRdmaDevices"
                     ELSE "SelectRdmaDevicesByRank",
        arg |-> IF byGpu THEN gpu.dev ELSE gpu.rank,
        max |-> gpu.max,
        initTried |-> ~initialized,
        initOK |-> initialized \/ gpu.initOK,
        env |-> gpu]

\* InitializeRdmaConfig: utrans_config.rdma_conf.valid_dev_patt is a copy
\* of the selected device names, or nullptr when none was selected.
ValidDevPatt(nic) == IF nic.selected THEN "set" ELSE "null"

\* What SelectRdmaDevices can give InitializeRdmaConfig: whether any device
\* was selected, and the NUMA nodes of the selected NICs in order.
NicSelections ==
    { [selected |-> FALSE, nodes |-> << >>],
      [selected |-> TRUE, nodes |-> << >>],
      [selected |-> TRUE, nodes |-> << 1 >>],
      [selected |-> TRUE, nodes |-> << 0, 1 >>],
      [selected |-> TRUE, nodes |-> << kNoNumaNode, 1 >>] }

\* InitializeRdmaConfig: nic_nodes_ is cleared and refilled from the selected
\* devices when there are any; untouched otherwise.
NicNodes(nic, old) == IF nic.selected THEN nic.nodes ELSE old

\* InitializeRdmaConfig: "rdma_numa_node_ = nic_nodes_.empty() ? -1 :
\* nic_nodes_[0].second" when devices were selected; untouched otherwise.
RdmaNumaNode(nic, old) ==
    IF ~nic.selected THEN old
    ELSE IF nic.nodes = << >> THEN -1 ELSE nic.nodes[1]

\* SetupUtransContext: utrans_setup(&cfg, &ctx_) stores a fresh context in
\* ctx_ on success, whatever ctx_ held before; on failure ctx_ is left as is.
SetupUtransContext(setupOK) == IF setupOK THEN created + 1 ELSE ctx_

\* A fixed-port bring-up that goes on to the next port when the bind fails.
FixedPortBindRetrying(optPort, fails) ==
    IF fails = 0
      THEN [ok |-> TRUE, port |-> optPort, tried |-> << optPort >>]
      ELSE [ok |-> fails = 1, port |-> optPort + 1,
            tried |-> << optPort, optPort + 1 >>]

\* SetupRpcServer in fixed-port mode: rpc_listen_port = the local port option,
\* one utrans_setup_rpcsrv call; `fails` is the number of binds that fail
\* before one succeeds.
FixedPortBind(optPort, fails) ==
    [ok |-> fails = 0, port |-> optPort, tried |-> << optPort >>]

\* A base port one past the offset.
BasePortShifted(r) == kRdmaPortStart + r + 1

\* "int base_port = kRdmaPortStart + random_offset"
BasePort(r) == kRdmaPortStart + r

\* The scan staying on the base port.
CurrentPortStuck(base, attempt) == base

\* "int current_port = base_port + attempt_count"
CurrentPort(base, attempt) == base + attempt

\* setup_func without its own attempt limit.
SetupFuncUnlimited(attempt) == FALSE

\* "if (attempt_count >= kBindPortMaxRetry) throw std::runtime_error"
SetupFuncExhausted(attempt) == attempt >= kBindPortMaxRetry

\* SetupRpcServerWithRetry from the attempt_count-th call of setup_func on:
\* RetryUtils::Retry under CountingRetry(kBindPortMaxRetry) calls setup_func
\* again after each exception it may retry.  `tried` are the ports bound so far.
RECURSIVE ScanPorts(_, _, _, _, _)
ScanPorts(base, attempt, retriesDone, fails, tried) ==
    LET giveUp == [ok |-> FALSE, port |-> 0, tried |-> tried]
        again == RetryDecision("runtime_error", retriesDone, kBindPortMaxRetry)
                    = "retry"
    IN IF SetupFuncExhausted(attempt)
         THEN (IF again
                 THEN ScanPorts(base, attempt, retriesDone + 1, fails, tried)
                 ELSE giveUp)
         ELSE LET p == CurrentPort(base, attempt)
                  triedNow == Append(tried, p)
              IN IF attempt >= fails
                   THEN [ok |-> TRUE, port |-> p, tried |-> triedNow]
                   ELSE IF again
                     THEN ScanPorts(base, attempt + 1, retriesDone + 1, fails,
                                    triedNow)
                     ELSE [ok |-> FALSE, port |-> 0, tried |-> triedNow]

\* SetupRpcServer: ok, the port bound (local_server_port_ on success) and the
\* ports handed to utrans_setup_rpcsrv.  r is the random offset drawn and
\* `fails` the number of leading binds that fail.
SetupRpcServer(fixed, optPort, r, fails) ==
    IF fixed THEN FixedPortBind(optPort, fails)
    ELSE ScanPorts(BasePort(r), 0, 0, fails, << >>)

\* A worker created whatever the perf option says.
PerfThreadAlways(perfOpt, ctx) == ctx # NullCtx

\* InitializePerfMetricsThread: the worker is created iff perf metrics are
\* enabled and the context is live.
PerfThreadWanted(perfOpt, ctx) == perfOpt /\ ctx # NullCtx

\* "int GetBindPort() const override { return local_server_port_; }"
GetBindPort == local_server_port_

\* A listener port written whether or not the bind succeeded.
PortAfterAlways(bound, port, old) == port

\* "local_server_port_ = uconfig->rpc_listen_port;" / "local_server_port_ =
\* current_port;": both follow a utrans_setup_rpcsrv that succeeded.
PortAfter(bound, port, old) == IF bound THEN port ELSE old

\* A Start that brings the listener up whatever utrans_setup answered.
StartStepsEager(setupOK, rpcOK, perfWanted) ==
    IF ~(setupOK /\ rpcOK) THEN << "utrans_setup", "utrans_setup_rpcsrv" >>
    ELSE << "utrans_setup", "utrans_setup_rpcsrv" >>
           \o (IF perfWanted THEN << "std::thread" >> ELSE << >>)
           \o << "is_running_" >>

\* What Start does, in order: SetupUtransContext, and "return false" when it
\* failed; SetupRpcServer, and "return false" when it failed;
\* InitializePerfMetricsThread, which creates the worker when wanted;
\* "is_running_ = true".
StartSteps(setupOK, rpcOK, perfWanted) ==
    IF ~setupOK THEN << "utrans_setup" >>
    ELSE IF ~rpcOK THEN << "utrans_setup", "utrans_setup_rpcsrv" >>
    ELSE << "utrans_setup", "utrans_setup_rpcsrv" >>
           \o (IF perfWanted THEN << "std::thread" >> ELSE << >>)
           \o << "is_running_" >>

\* TRUE when step s is among steps.
Did(steps, s) == \E i \in DOMAIN steps : steps[i] = s

\* Start, whole: the options, RDMA configuration, context setup, listener
\* bring-up, perf worker, is_running_.  Assigning a new std::thread to a
\* joinable perf_logging_thread_ calls std::terminate.  The listener options
\* are drawn from modes (fixed port or scan), optPorts and offsets, the bind
\* failures from failCounts, the device selection from nics and the
\* read / write timeout options from timeouts.
StartWith(t, modes, optPorts, offsets, failCounts, nics, timeouts, gpus) ==
    /\ CanCall(t)
    /\ created < MaxStarts
    /\ \E tm \in timeouts : /\ read_timeout_ms_' = tm.read
                            /\ write_timeout_ms_' = tm.write
    /\ \E setupOK \in BOOLEAN, fixed \in modes, optPort \in optPorts,
          r \in offsets, fails \in failCounts, perfOpt \in BOOLEAN,
          nic \in nics, gpu \in gpus :
         LET sel == SelectRdmaDevices(gpu, topology_initialized)
             ctxAfter == SetupUtransContext(setupOK)
             rpc == SetupRpcServer(fixed, optPort, r, fails)
             steps == StartSteps(setupOK, rpc.ok,
                                 PerfThreadWanted(perfOpt, ctxAfter))
             listened == Did(steps, "utrans_setup_rpcsrv")
             started == Did(steps, "is_running_")
             spawn == Did(steps, "std::thread")
             terminate == spawn /\ perf_thread_joinable
             running == started /\ ~terminate
             c0 == [NewCall("Start") EXCEPT
                       !.entRunning = is_running_, !.ctxBefore = ctx_,
                       !.portBefore = local_server_port_, !.ctxOK = setupOK,
                       !.steps = steps, !.sel = sel,
                       !.selected = nic.selected,
                       !.devPatt = ValidDevPatt(nic)]
             c1 == IF listened
                     THEN [c0 EXCEPT !.fixed = fixed,
                                     !.optPort = IF fixed THEN optPort ELSE 0,
                                     !.offset = IF fixed THEN 0 ELSE r,
                                     !.tried = rpc.tried]
                     ELSE c0
             c2 == IF started
                     THEN [c1 EXCEPT !.perfOpt = perfOpt, !.spawned = spawn]
                     ELSE c1
         IN /\ topology_initialized' = sel.initOK
            /\ rdma_numa_node_' = RdmaNumaNode(nic, rdma_numa_node_)
            /\ nic_nodes_' = NicNodes(nic, nic_nodes_)
            /\ ctx_' = ctxAfter
            /\ created' = IF setupOK THEN created + 1 ELSE created
            /\ local_server_port_' =
                   PortAfter(listened /\ rpc.ok, rpc.port, local_server_port_)
            /\ perf_logging_thread_running_' =
                   IF spawn THEN TRUE ELSE perf_logging_thread_running_
            /\ crashed' = terminate
            /\ perf_thread_joinable' = IF spawn THEN TRUE ELSE perf_thread_joinable
            /\ perf_pc' = IF spawn /\ ~terminate THEN "loop" ELSE perf_pc
            /\ is_running_' = IF running THEN TRUE ELSE is_running_
            /\ startsOK' = IF running THEN startsOK + 1 ELSE startsOK
            /\ stoppedCtx' = IF running THEN NullCtx ELSE stoppedCtx
            /\ IF terminate
                 THEN UNCHANGED << pc, call >>
                 ELSE /\ pc' = [pc EXCEPT ![t] = "ret"]
                      /\ call' = [call EXCEPT ![t] =
                            [c2 EXCEPT
                                !.ret = IF started THEN "true" ELSE "false"]]
    /\ UNCHANGED << close_mutex_, last_send_receive_time_, send_retry_count,
                    recv_retry_count, perf_ctx, cleanCount, regs, now, lifecycle,
                    callsLeft, printOnCleaned, cleanWithPerfAlive, teardowns,
                    memLog >>

\* Both timeout options left at "wait forever".
NoTimeouts == [read |-> kWaitForever, write |-> kWaitForever]

\* Start with the listener on one fixed port and no RDMA device selected.
Start(t) ==
    StartWith(t, {TRUE}, {kRdmaPortStart}, {0}, {0, 1},
              {[selected |-> FALSE, nodes |-> << >>]}, {NoTimeouts}, {NoGpu})

\* Start over the listener options: fixed ports and scan offsets, with every
\* number of leading bind failures.
OptionPorts == {kRdmaPortStart - 1, kRdmaPortStart + 1}

ScanOffsets == {0, 1, kRandomOffsetMax}

StartListener(t) ==
    StartWith(t, BOOLEAN, OptionPorts, ScanOffsets, 0..(kBindPortMaxRetry + 1),
              {[selected |-> FALSE, nodes |-> << >>]}, {NoTimeouts}, {NoGpu})

\* Start over the RDMA device selections, the listener on one fixed port.
StartDevices(t) ==
    StartWith(t, {TRUE}, {kRdmaPortStart}, {0}, {0}, NicSelections,
              {NoTimeouts}, {NoGpu})

\* Start over the timeout options, each either "wait forever" or a number of
\* milliseconds.
TimeoutOptions ==
    { [read |-> r, write |-> w] : r \in {kWaitForever, 3000},
                                  w \in {kWaitForever, 5000} }

StartTimeouts(t) ==
    StartWith(t, {TRUE}, {kRdmaPortStart}, {0}, {0},
              {[selected |-> FALSE, nodes |-> << >>]}, TimeoutOptions, {NoGpu})

\* Start over what device selection can meet: every GPU environment and
\* every selection result, the listener on one fixed port.
StartSelect(t) ==
    StartWith(t, {TRUE}, {kRdmaPortStart}, {0}, {0, 1}, NicSelections,
              {NoTimeouts}, GpuEnvs)

\* The caller reads the listener port.
GetBindPortCall(t) ==
    /\ CanCall(t)
    /\ pc' = [pc EXCEPT ![t] = "ret"]
    /\ call' = [call EXCEPT ![t] = [NewCall("GetBindPort") EXCEPT
                                        !.port = GetBindPort]]
    /\ UNCHANGED << engineVars, perfVars, backendVars, obsVars, envVars >>

(* -------------------------------- Stop --------------------------------- *)
\* Where a finished Stop goes: back to the caller, or on into the destructor.
AfterStop(t) == IF call[t].op = "Destroy" THEN "dtor_clean" ELSE "idle"

\* The locals once Stop has ended: gone on return, kept inside the destructor.
AfterStopCall(t) == IF call[t].op = "Destroy" THEN call[t] ELSE NoCall

\* The caller invokes Stop().
StopCall(t) ==
    /\ CanCall(t)
    /\ pc' = [pc EXCEPT ![t] = "stop_first"]
    /\ call' = [call EXCEPT ![t] = NewCall("Stop")]
    /\ UNCHANGED << engineVars, perfVars, backendVars, obsVars, envVars >>

\* "if (!is_running_) return;" before taking the lock.
StopFirstCheck(t) ==
    /\ ~crashed
    /\ pc[t] = "stop_first"
    /\ IF is_running_
         THEN /\ pc' = [pc EXCEPT ![t] = "stop_lock"]
              /\ UNCHANGED call
         ELSE /\ pc' = [pc EXCEPT ![t] = AfterStop(t)]
              /\ call' = [call EXCEPT ![t] = AfterStopCall(t)]
    /\ UNCHANGED << engineVars, perfVars, backendVars, obsVars, envVars >>

\* std::lock_guard<std::mutex> lock_close(close_mutex_)
StopLock(t) ==
    /\ ~crashed
    /\ pc[t] = "stop_lock"
    /\ close_mutex_ = "free"
    /\ close_mutex_' = t
    /\ pc' = [pc EXCEPT ![t] = "stop_check"]
    /\ UNCHANGED << call, ctx_, is_running_, perf_logging_thread_running_,
                    perf_thread_joinable, last_send_receive_time_, send_retry_count,
                    recv_retry_count,
                    local_server_port_, rdma_numa_node_, nic_nodes_,
                    read_timeout_ms_, write_timeout_ms_, perfVars, backendVars, obsVars, envVars >>

\* Stop without the check under the lock: every Stop that got past the
\* first check tears down.
StopLockedCheckSkipped == TRUE

\* The second "if (!is_running_) return;", under the lock: TRUE when the
\* teardown goes ahead.
StopLockedCheck == is_running_

StopCheck(t) ==
    /\ ~crashed
    /\ pc[t] = "stop_check"
    /\ IF StopLockedCheck
         THEN /\ pc' = [pc EXCEPT ![t] = "stop_perf"]
              /\ teardowns' = teardowns + 1
              /\ UNCHANGED << call, close_mutex_ >>
         ELSE /\ pc' = [pc EXCEPT ![t] = AfterStop(t)]
              /\ call' = [call EXCEPT ![t] = AfterStopCall(t)]
              /\ close_mutex_' = "free"
              /\ UNCHANGED teardowns
    /\ UNCHANGED << ctx_, is_running_, perf_logging_thread_running_,
                    perf_thread_joinable, last_send_receive_time_, send_retry_count,
                    recv_retry_count,
                    local_server_port_, rdma_numa_node_, nic_nodes_,
                    read_timeout_ms_, write_timeout_ms_, perfVars, backendVars, envVars,
                    printOnCleaned, cleanWithPerfAlive, startsOK, stoppedCtx, memLog >>

\* A Stop that clears the flag and goes on without joining the worker.
StopPerfNoJoin(joinable) == "stop_finish"

\* "if (perf_logging_thread_.joinable()) { perf_logging_thread_.join(); }"
\* once the flag is cleared: where Stop goes next.
StopPerfNext(joinable) == IF joinable THEN "stop_join" ELSE "stop_finish"

\* "if (perf_logging_thread_running_) { perf_logging_thread_running_ = false;"
\* then join() when joinable.
StopPerf(t) ==
    /\ ~crashed
    /\ pc[t] = "stop_perf"
    /\ IF perf_logging_thread_running_
         THEN /\ perf_logging_thread_running_' = FALSE
              /\ pc' = [pc EXCEPT ![t] = StopPerfNext(perf_thread_joinable)]
         ELSE /\ pc' = [pc EXCEPT ![t] = "stop_finish"]
              /\ UNCHANGED perf_logging_thread_running_
    /\ UNCHANGED << call, ctx_, is_running_, perf_thread_joinable, close_mutex_,
                    last_send_receive_time_, send_retry_count, recv_retry_count,
                    local_server_port_, rdma_numa_node_, nic_nodes_,
                    read_timeout_ms_, write_timeout_ms_,
                    perfVars, backendVars, obsVars, envVars >>

\* perf_logging_thread_.join(): returns once the worker function has returned.
StopJoin(t) ==
    /\ ~crashed
    /\ pc[t] = "stop_join"
    /\ perf_pc = "exited"
    /\ perf_pc' = "none"
    /\ perf_thread_joinable' = FALSE
    /\ pc' = [pc EXCEPT ![t] = "stop_finish"]
    /\ UNCHANGED << call, ctx_, is_running_, perf_logging_thread_running_,
                    close_mutex_, last_send_receive_time_, send_retry_count,
                    recv_retry_count,
                    local_server_port_, rdma_numa_node_, nic_nodes_,
                    read_timeout_ms_, write_timeout_ms_, perf_ctx, backendVars, obsVars, envVars >>

\* A Stop that lets go of the context.
StopCtxCleared(ctx) == NullCtx

\* ctx_ once Stop is over: the teardown of the remote contexts is commented
\* out and no statement of Stop names ctx_, so it is what it was.
StopCtx(ctx) == ctx

\* "is_running_ = false;" and the lock_guard's release on return.
StopFinish(t) ==
    /\ ~crashed
    /\ pc[t] = "stop_finish"
    /\ is_running_' = FALSE
    /\ ctx_' = StopCtx(ctx_)
    /\ close_mutex_' = "free"
    /\ stoppedCtx' = ctx_
    /\ pc' = [pc EXCEPT ![t] = AfterStop(t)]
    /\ call' = [call EXCEPT ![t] = AfterStopCall(t)]
    /\ UNCHANGED << perf_logging_thread_running_, perf_thread_joinable,
                    last_send_receive_time_, send_retry_count, recv_retry_count,
                    local_server_port_, rdma_numa_node_, nic_nodes_,
                    read_timeout_ms_, write_timeout_ms_,
                    perfVars, backendVars, envVars, printOnCleaned,
                    cleanWithPerfAlive, startsOK, teardowns, memLog >>

(* --------------------------- ~RDMATransporter --------------------------- *)
\* The object is destroyed by its owner once no call on it is in flight; the
\* destructor first runs Stop().
DtorCall(t) ==
    /\ CanCall(t)
    /\ \A u \in Threads : pc[u] = "idle"
    /\ lifecycle' = "destroying"
    /\ pc' = [pc EXCEPT ![t] = "stop_first"]
    /\ call' = [call EXCEPT ![t] = NewCall("Destroy")]
    /\ UNCHANGED << engineVars, perfVars, backendVars, obsVars, now, crashed,
                    callsLeft, topology_initialized >>

\* A destructor that cleans the context of a Running engine only.
DtorCleanWantedIfRunning(ctx) == ctx # NullCtx /\ is_running_

\* "if (ctx_ != nullptr)" in the destructor, after Stop().
DtorCleanWanted(ctx) == ctx # NullCtx

\* "if (ctx_ != nullptr) { utrans_clean(ctx_);"
DtorClean(t) ==
    /\ ~crashed
    /\ pc[t] = "dtor_clean"
    /\ IF DtorCleanWanted(ctx_)
         THEN /\ cleanCount' = [cleanCount EXCEPT ![ctx_] = @ + 1]
              /\ cleanWithPerfAlive' = (cleanWithPerfAlive \/ perf_pc # "none")
              /\ pc' = [pc EXCEPT ![t] = "dtor_null"]
         ELSE /\ pc' = [pc EXCEPT ![t] = "dtor_members"]
              /\ UNCHANGED << cleanCount, cleanWithPerfAlive >>
    /\ UNCHANGED << call, engineVars, perfVars, created, regs, envVars,
                    printOnCleaned, startsOK, teardowns, stoppedCtx, memLog >>

\* "ctx_ = nullptr; }"
DtorNull(t) ==
    /\ ~crashed
    /\ pc[t] = "dtor_null"
    /\ ctx_' = NullCtx
    /\ pc' = [pc EXCEPT ![t] = "dtor_members"]
    /\ UNCHANGED << call, is_running_, perf_logging_thread_running_,
                    perf_thread_joinable, close_mutex_, last_send_receive_time_,
                    send_retry_count, recv_retry_count,
                    local_server_port_, rdma_numa_node_, nic_nodes_,
                    read_timeout_ms_, write_timeout_ms_, perfVars, backendVars,
                    obsVars, envVars >>

\* Member destruction: ~std::thread on a joinable perf_logging_thread_ calls
\* std::terminate.
DtorMembers(t) ==
    /\ ~crashed
    /\ pc[t] = "dtor_members"
    /\ crashed' = perf_thread_joinable
    /\ lifecycle' = "destroyed"
    /\ pc' = [pc EXCEPT ![t] = "gone"]
    /\ UNCHANGED << call, engineVars, perfVars, backendVars, obsVars, now, callsLeft,
                    topology_initialized >>

(* --------------------- PerfMetricsLoggingThread ------------------------ *)
\* A worker loop that never looks at the flag.
PerfLoopForever(running) == "sleep"

\* "while (perf_logging_thread_running_)": the loop condition, read at the
\* top of each iteration; the function returns when it is false.
PerfLoopNext(running) == IF running THEN "sleep" ELSE "exited"

PerfLoop ==
    /\ ~crashed
    /\ perf_pc = "loop"
    /\ perf_pc' = PerfLoopNext(perf_logging_thread_running_)
    /\ UNCHANGED << perf_ctx, pc, call, engineVars, backendVars, obsVars, envVars >>

\* A window that takes activity exactly one second old for recent.
PerfActivityRecentInclusive(tnow, last) == tnow - last <= kPerfActivityWindowMs

\* TRUE when the tick finds recent activity: "now - last_activity < 1000".
PerfActivityRecent(tnow, last) == tnow - last < kPerfActivityWindowMs

\* The sleep is over: read the clock and last_send_receive_time_.
PerfTick ==
    /\ ~crashed
    /\ perf_pc = "sleep"
    /\ perf_pc' = IF PerfActivityRecent(now, last_send_receive_time_)
                    THEN "check" ELSE "loop"
    /\ UNCHANGED << perf_ctx, pc, call, engineVars, backendVars, obsVars, envVars >>

\* "if (ctx_ != nullptr)"
PerfCheckCtx ==
    /\ ~crashed
    /\ perf_pc = "check"
    /\ perf_ctx' = ctx_
    /\ perf_pc' = IF ctx_ # NullCtx THEN "print" ELSE "loop"
    /\ UNCHANGED << pc, call, engineVars, backendVars, obsVars, envVars >>

\* "utrans_print_perf_info(ctx_)": ctx_ is a plain pointer read without
\* synchronisation, so the argument is the value seen by the check or the
\* current one.
PerfPrint ==
    /\ ~crashed
    /\ perf_pc = "print"
    /\ \E c \in {perf_ctx, ctx_} :
         printOnCleaned' = (printOnCleaned \/ c = NullCtx \/ cleanCount[c] > 0)
    /\ perf_pc' = "loop"
    /\ perf_ctx' = NullCtx
    /\ UNCHANGED << pc, call, engineVars, backendVars, envVars, cleanWithPerfAlive,
                    startsOK, teardowns, stoppedCtx, memLog >>

(* ------------------------------ the clock ------------------------------ *)
Tick ==
    /\ ~crashed
    /\ lifecycle # "destroyed"
    /\ now < ClockStart + MaxTicks * TickMs
    /\ now' = now + TickMs
    /\ UNCHANGED << pc, call, engineVars, perfVars, backendVars, obsVars, lifecycle,
                    crashed, callsLeft, topology_initialized >>

\* The call has returned to the caller; its locals are gone.
Return(t) ==
    /\ ~crashed
    /\ pc[t] = "ret"
    /\ pc' = [pc EXCEPT ![t] = "idle"]
    /\ call' = [call EXCEPT ![t] = NoCall]
    /\ UNCHANGED << engineVars, perfVars, backendVars, obsVars, envVars >>

(* ---------------------------- Send / Receive --------------------------- *)
\* The precondition checks with the "size == 0" test left out.
ValidateNoLength(op, ctx, buf, len, rbuf) ==
    IF ctx = NullCtx
      THEN (IF op = "Send" THEN "false" ELSE "invalid_argument:context")
      ELSE IF ~buf THEN "invalid_argument:data"
      ELSE IF ~rbuf THEN "invalid_argument:remote"
      ELSE "ok"

\* The precondition checks without the test of ctx_.
ValidateNoContext(op, ctx, buf, len, rbuf) ==
    IF ~buf \/ len = 0 THEN "invalid_argument:data"
    ELSE IF ~rbuf THEN "invalid_argument:remote"
    ELSE "ok"

\* The precondition checks with the remote address looked at before the
\* local buffer.
ValidateRemoteFirst(op, ctx, buf, len, rbuf) ==
    IF ctx = NullCtx
      THEN (IF op = "Send" THEN "false" ELSE "invalid_argument:context")
      ELSE IF ~rbuf THEN "invalid_argument:remote"
      ELSE IF ~buf \/ len = 0 THEN "invalid_argument:data"
      ELSE "ok"

\* The precondition checks at the head of Send and Receive, in source order.
\* buf: local_addr != nullptr; len: the size; rbuf: GetRemoteAddrFromExtendInfo
\* found a non-null remote address.  "false" is a plain return, the other
\* results are std::invalid_argument thrown to the caller.
Validate(op, ctx, buf, len, rbuf) ==
    IF ctx = NullCtx
      THEN (IF op = "Send" THEN "false" ELSE "invalid_argument:context")
      ELSE IF ~buf \/ len = 0 THEN "invalid_argument:data"
      ELSE IF ~rbuf THEN "invalid_argument:remote"
      ELSE "ok"

ArgErrors == {"invalid_argument:context", "invalid_argument:data",
              "invalid_argument:remote"}

\* The retry options read crosswise: Send with the receive count.
RetryCountForSwapped(op) ==
    IF op = "Send" THEN recv_retry_count ELSE send_retry_count

\* "int retry_count = GetOptionValue<int>(options_, TRANSPORT_SEND_RETRY_COUNT)"
\* in Send, TRANSPORT_RECEIVE_RETRY_COUNT in Receive.
RetryCountFor(op) == IF op = "Send" THEN send_retry_count ELSE recv_retry_count

\* What utrans_exec_transfer can do: return a handle whose result is success
\* or a failure status, return nullptr, or (a mock backend) throw
\* NonRetryableException.
ExecOutcomes == {"success", "status_error", "null", "NonRetryable"}

\* TRUE when utrans_exec_transfer returned a handle (op_info != nullptr).
HandleObtained(out) == out \in {"success", "status_error"}

\* The handle released on the success path only.
UnrefsOnStatusLeak(out) == IF out = "success" THEN 1 ELSE 0

\* utrans_unref_req_info calls send_func / recv_func makes on a handle whose
\* result is `out`: one on the failed-status path, one on the success path.
UnrefsOnStatus(out) == 1

\* An attempt that does not look at the handle's result.
AttemptResultLax(out) ==
    CASE out \in {"success", "status_error"} -> "true"
      [] out = "NonRetryable" -> "NonRetryable"
      [] OTHER -> "runtime_error"

\* How send_func / recv_func ends once utrans_exec_transfer has ended with
\* `out`: "true" (return true) or the exception it throws.
AttemptResult(out) ==
    CASE out = "success" -> "true"
      [] out = "NonRetryable" -> "NonRetryable"
      [] OTHER -> "runtime_error"

\* A wrapper that rethrows everything as std::runtime_error.
AttemptWrapperFlatten(e) == "runtime_error"

\* The lambda handed to RetryUtils::Retry: both catch clauses rethrow
\* ("throw;") what send_func threw, its type unchanged.
AttemptWrapper(e) == e

\* Catch clauses that log and let the exception out.
CatchResultRethrow(e) == e

\* The catch clauses around RetryUtils::Retry in Send / Receive: both log
\* and return false.
CatchResult(e) == "false"

\* The call record and position after an attempt threw e.
Thrown(c, e) ==
    LET x == AttemptWrapper(e)
    IN IF RetryDecision(x, c.retries, c.retryN) = "retry"
         THEN [pc |-> "xfer_attempt",
               c |-> [c EXCEPT !.retries = @ + 1, !.sleeps = @ + 1]]
         ELSE [pc |-> "ret", c |-> [c EXCEPT !.exc = x, !.ret = CatchResult(x)]]

\* Entry of Send / Receive: the precondition checks, then the clock read.
XferEntry(t, op) ==
    /\ CanCall(t)
    /\ callsLeft > 0
    /\ callsLeft' = callsLeft - 1
    /\ \E buf \in BOOLEAN, len \in 0..1, rbuf \in BOOLEAN :
         LET v == Validate(op, ctx_, buf, len, rbuf)
             c == [DataCall(op) EXCEPT !.buf = buf, !.len = len, !.rbuf = rbuf]
         IN IF v = "ok"
              THEN /\ pc' = [pc EXCEPT ![t] = "xfer_store"]
                   /\ call' = [call EXCEPT ![t] = [c EXCEPT !.tnow = now]]
              ELSE /\ pc' = [pc EXCEPT ![t] = "ret"]
                   /\ call' = [call EXCEPT ![t] = [c EXCEPT !.ret = v]]
    /\ UNCHANGED << engineVars, perfVars, backendVars, obsVars, now, lifecycle,
                    crashed, topology_initialized >>

Send(t) == XferEntry(t, "Send")

Receive(t) == XferEntry(t, "Receive")

\* A data path that does not record the activity.
XferWritesKeepTime(t, tnow) ==
    [last |-> last_send_receive_time_, ctx |-> ctx_, mutex |-> close_mutex_]

\* A data path that drops the context.
XferWritesResetCtx(t, tnow) ==
    [last |-> tnow, ctx |-> NullCtx, mutex |-> close_mutex_]

\* A data path that takes close_mutex_ and keeps it.
XferWritesLocking(t, tnow) ==
    [last |-> tnow, ctx |-> ctx_, mutex |-> t]

\* The members Send / Receive write between the precondition checks and the
\* retry loop: "last_send_receive_time_ = now;" and no other; ctx_ is read
\* only and no lock is taken.
XferWrites(t, tnow) ==
    [last |-> tnow, ctx |-> ctx_, mutex |-> close_mutex_]

\* "last_send_receive_time_ = now;" and the read of the retry options.
XferStore(t) ==
    /\ ~crashed
    /\ pc[t] = "xfer_store"
    /\ LET w == XferWrites(t, call[t].tnow)
       IN /\ last_send_receive_time_' = w.last
          /\ ctx_' = w.ctx
          /\ close_mutex_' = w.mutex
    /\ pc' = [pc EXCEPT ![t] = "xfer_attempt"]
    /\ call' = [call EXCEPT ![t].retryN = RetryCountFor(call[t].op),
                            ![t].stores = @ + 1]
    /\ UNCHANGED << is_running_, perf_logging_thread_running_,
                    perf_thread_joinable, send_retry_count, recv_retry_count,
                    local_server_port_, rdma_numa_node_, nic_nodes_,
                    read_timeout_ms_, write_timeout_ms_, perfVars, backendVars,
                    obsVars, envVars >>

\* A request that takes the timeout of the other direction.
TransferRequestSwapped(op, readTimeout, writeTimeout) ==
    [opcode |-> IF op = "Send" THEN "USER_OP_WRITE" ELSE "USER_OP_READ",
     pollers |-> kTransferPollers, chunk |-> kTransferChunk,
     timeout |-> IF op = "Send" THEN readTimeout ELSE writeTimeout]

\* "trans_req_t req{remote_inst_id, USER_OP_WRITE, ...}; trans_conf_t conf{4,
\* 1024 * 1024, write_timeout_ms_};" in Send, USER_OP_READ and
\* read_timeout_ms_ in Receive.
TransferRequest(op, readTimeout, writeTimeout) ==
    [opcode |-> IF op = "Send" THEN "USER_OP_WRITE" ELSE "USER_OP_READ",
     pollers |-> kTransferPollers, chunk |-> kTransferChunk,
     timeout |-> IF op = "Send" THEN writeTimeout ELSE readTimeout]

\* An attempt that submits the transfer only while the engine is Running.
SubmitsAfterQueryRunning(qok) == IF qok /\ is_running_ THEN 1 ELSE 0

\* An attempt that submits the transfer whatever the lookup answered.
SubmitsAfterQueryAlways(qok) == 1

\* utrans_exec_transfer calls an attempt makes once utrans_query_instid has
\* answered: "if (ret != UTRANS_RET_SUCC) throw std::runtime_error(...)"
\* comes before the request is built.
SubmitsAfterQuery(qok) == IF qok THEN 1 ELSE 0

\* One attempt begins: utrans_query_instid, then the request is handed to
\* utrans_exec_transfer (a submission).
XferQuery(t) ==
    /\ ~crashed
    /\ pc[t] = "xfer_attempt"
    /\ \E qok \in BOOLEAN :
         LET c == [call[t] EXCEPT
                      !.attempts = @ + 1, !.queries = @ + 1,
                      !.subs = @ + SubmitsAfterQuery(qok),
                      !.req = IF SubmitsAfterQuery(qok) > 0
                                THEN TransferRequest(call[t].op, read_timeout_ms_,
                                                     write_timeout_ms_)
                                ELSE @]
         IN IF qok
              THEN /\ pc' = [pc EXCEPT ![t] = "xfer_exec"]
                   /\ call' = [call EXCEPT ![t] = c]
              ELSE LET r == Thrown([c EXCEPT !.qfails = @ + 1], "runtime_error")
                   IN /\ pc' = [pc EXCEPT ![t] = r.pc]
                      /\ call' = [call EXCEPT ![t] = r.c]
    /\ UNCHANGED << engineVars, perfVars, backendVars, obsVars, envVars >>

\* utrans_exec_transfer ends: the handle's result is examined, the handle
\* released, and the attempt returns true or throws.
XferExec(t) ==
    /\ ~crashed
    /\ pc[t] = "xfer_exec"
    /\ \E out \in ExecOutcomes :
         LET got == HandleObtained(out)
             c == [call[t] EXCEPT
                     !.obtained = IF got THEN @ + 1 ELSE @,
                     !.released = IF got THEN @ + UnrefsOnStatus(out) ELSE @,
                     !.bfails = IF out \in {"status_error", "null"} THEN @ + 1 ELSE @,
                     !.nrAt = IF out = "NonRetryable" THEN call[t].attempts ELSE @]
             res == AttemptResult(out)
         IN IF res = "true"
              THEN /\ pc' = [pc EXCEPT ![t] = "ret"]
                   /\ call' = [call EXCEPT ![t] = [c EXCEPT !.ret = "true"]]
              ELSE LET r == Thrown(c, res)
                   IN /\ pc' = [pc EXCEPT ![t] = r.pc]
                      /\ call' = [call EXCEPT ![t] = r.c]
    /\ UNCHANGED << engineVars, perfVars, backendVars, obsVars, envVars >>

(* ----------------------- AsyncSend / AsyncReceive ---------------------- *)
\* An async call that answers false on an engine without a context.
AsyncResultByCtx(ctx) ==
    IF ctx = NullCtx THEN "false" ELSE "runtime_error:Not implemented"

\* "throw std::runtime_error("Not implemented");" is the whole body.
AsyncResult(ctx) == "runtime_error:Not implemented"

\* AsyncSend / AsyncReceive: no parameter is read, no member is touched, no
\* backend function is called.
AsyncEntry(t, op) ==
    /\ CanCall(t)
    /\ \E buf \in BOOLEAN, len \in 0..1 :
         call' = [call EXCEPT ![t] =
                     [DataCall(op) EXCEPT !.buf = buf, !.len = len,
                                          !.ret = AsyncResult(ctx_)]]
    /\ pc' = [pc EXCEPT ![t] = "ret"]
    /\ UNCHANGED << engineVars, perfVars, backendVars, obsVars, envVars >>

AsyncSend(t) == AsyncEntry(t, "AsyncSend")

AsyncReceive(t) == AsyncEntry(t, "AsyncReceive")

(* ------------------- RegisterMemory / DeregisterMemory ----------------- *)
\* The backend's registrations: a region is held by a context from a
\* registration that gave a handle until a deregistration that succeeded.
BackendRegister(rs, key, mrOK) == IF mrOK THEN rs \cup {key} ELSE rs

\* utrans_dereg_mem answers 0 for success; it cannot succeed on a region the
\* context does not hold, and may fail on one it holds.
DeregCode(held, backendFails) == IF held /\ ~backendFails THEN 0 ELSE 1

BackendDeregister(rs, key, rc) == IF rc = 0 THEN rs \ {key} ELSE rs

\* A dispatch that hands the caller's argument to either backend function.
RegisterBackendCallByArg(isVram, nodeArg, numaNode) ==
    [fn |-> IF isVram THEN "utrans_regist_vram" ELSE "utrans_regist_ram",
     arg |-> nodeArg]

\* "if (is_vram) mr = utrans_regist_vram(ctx_, addr, len, gpu_id_or_numa_node);
\*  else mr = utrans_regist_ram(ctx_, addr, len, rdma_numa_node_);"
RegisterBackendCall(isVram, nodeArg, numaNode) ==
    IF isVram THEN [fn |-> "utrans_regist_vram", arg |-> nodeArg]
              ELSE [fn |-> "utrans_regist_ram", arg |-> numaNode]

\* A registration that reports success whatever the handle.
RegisterResultLax(mrOK) == "true"

\* "if (mr == nullptr) throw std::runtime_error(...); return true;"
RegisterResult(mrOK) == IF mrOK THEN "true" ELSE "runtime_error"

\* A result that takes a non-zero code for success.
DeregResultInverted(rc) == rc # 0

\* A result that reports success whatever the code.
DeregResultAlways(rc) == TRUE

\* "bool result = utrans_dereg_mem(ctx_, addr, len) == 0;"
DeregResult(rc) == rc = 0

\* memLog after a call on region r that returned ret.
MemLogAfter(opname, r, ret) ==
    IF ret # "true" THEN memLog
    ELSE IF opname = "RegisterMemory"
      THEN [memLog EXCEPT ![r].regOK = @ + 1, ![r].gone = FALSE]
      ELSE [memLog EXCEPT ![r].deregOK = @ + 1, ![r].gone = TRUE]

\* RegisterMemory: false without a context; otherwise the backend is asked
\* and a null registration is thrown as std::runtime_error.  The region is
\* drawn from regions, is_vram from kinds and gpu_id_or_numa_node from args.
RegisterMemoryWith(t, regions, kinds, args) ==
    /\ CanCall(t)
    /\ callsLeft > 0
    /\ callsLeft' = callsLeft - 1
    /\ pc' = [pc EXCEPT ![t] = "ret"]
    /\ \E r \in regions, isVram \in kinds, nodeArg \in args, mrOK \in BOOLEAN :
         LET c == [DataCall("RegisterMemory") EXCEPT
                      !.region = r, !.isVram = isVram, !.nodeArg = nodeArg,
                      !.regsBefore = regs]
             bc == RegisterBackendCall(isVram, nodeArg, rdma_numa_node_)
             ret == IF ctx_ = NullCtx THEN "false" ELSE RegisterResult(mrOK)
         IN /\ IF ctx_ = NullCtx
                 THEN /\ call' = [call EXCEPT ![t] = [c EXCEPT !.ret = ret]]
                      /\ UNCHANGED regs
                 ELSE /\ call' = [call EXCEPT ![t] =
                           [c EXCEPT !.regcalls = 1, !.backendFn = bc.fn,
                                     !.backendArg = bc.arg, !.mrOK = mrOK,
                                     !.ret = ret]]
                      /\ regs' = BackendRegister(regs, << ctx_, r >>, mrOK)
            /\ memLog' = MemLogAfter("RegisterMemory", r, ret)
    /\ UNCHANGED << engineVars, perfVars, created, cleanCount, printOnCleaned,
                    cleanWithPerfAlive, startsOK, teardowns, stoppedCtx, now,
                    lifecycle, crashed, topology_initialized >>

\* DeregisterMemory: false without a context; otherwise whether
\* utrans_dereg_mem answered 0.  The region is drawn from regions and whether
\* the backend fails on a region it holds from fails.
DeregisterMemoryWith(t, regions, fails) ==
    /\ CanCall(t)
    /\ callsLeft > 0
    /\ callsLeft' = callsLeft - 1
    /\ pc' = [pc EXCEPT ![t] = "ret"]
    /\ \E r \in regions, backendFails \in fails :
         LET c == [DataCall("DeregisterMemory") EXCEPT
                      !.region = r, !.regsBefore = regs]
             rc == DeregCode(<< ctx_, r >> \in regs, backendFails)
             ret == IF ctx_ = NullCtx THEN "false"
                    ELSE IF DeregResult(rc) THEN "true" ELSE "false"
         IN /\ IF ctx_ = NullCtx
                 THEN /\ call' = [call EXCEPT ![t] = [c EXCEPT !.ret = ret]]
                      /\ UNCHANGED regs
                 ELSE /\ call' = [call EXCEPT ![t] =
                           [c EXCEPT !.regcalls = 1, !.rc = rc, !.ret = ret]]
                      /\ regs' = BackendDeregister(regs, << ctx_, r >>, rc)
            /\ memLog' = MemLogAfter("DeregisterMemory", r, ret)
    /\ UNCHANGED << engineVars, perfVars, created, cleanCount, printOnCleaned,
                    cleanWithPerfAlive, startsOK, teardowns, stoppedCtx, now,
                    lifecycle, crashed, topology_initialized >>

\* Registration of one RAM region with a backend that deregisters what it
\* holds.
RegisterMemory(t) == RegisterMemoryWith(t, Regions, {FALSE}, {0})

DeregisterMemory(t) == DeregisterMemoryWith(t, Regions, {FALSE})

\* Registration over both regions, RAM and VRAM, and the caller's node / gpu
\* arguments; the backend may fail to deregister.
NodeArgs == {0, 2}

RegisterMemoryAny(t) == RegisterMemoryWith(t, AllRegions, BOOLEAN, NodeArgs)

DeregisterMemoryAny(t) == DeregisterMemoryWith(t, AllRegions, BOOLEAN)

(* --------------------------- specifications ---------------------------- *)
\* Everything caller thread t can do.
CallerNext(t) ==
    \/ Start(t)
    \/ StopCall(t)
    \/ StopFirstCheck(t)
    \/ StopLock(t)
    \/ StopCheck(t)
    \/ StopPerf(t)
    \/ StopJoin(t)
    \/ StopFinish(t)
    \/ DtorCall(t)
    \/ DtorClean(t)
    \/ DtorNull(t)
    \/ DtorMembers(t)
    \/ Send(t)
    \/ Receive(t)
    \/ XferStore(t)
    \/ XferQuery(t)
    \/ XferExec(t)
    \/ RegisterMemory(t)
    \/ DeregisterMemory(t)
    \/ Return(t)

\* The perf worker.
WorkerNext ==
    \/ PerfLoop
    \/ PerfTick
    \/ PerfCheckCtx
    \/ PerfPrint

\* The engine under concurrent callers: any thread may start, stop, destroy
\* or use the engine while another is inside a call.  It is configured with
\* one retry per direction and the callers make one data-path call.
Init == InitWith({<< 1, 1 >>}, 1)

Next ==
    \/ \E t \in Threads : CallerNext(t)
    \/ WorkerNext
    \/ Tick

Spec == Init /\ [][Next]_vars

\* The engine under a single caller, over every configured retry count: the
\* two directions are configured apart, n retries one way and MaxRetry - n
\* the other.
RetryConfigs == {<< n, MaxRetry - n >> : n \in 0..MaxRetry}

InitSeq == InitWith(RetryConfigs, MaxCalls)

NextSeq ==
    \/ CallerNext(MainThread)
    \/ AsyncSend(MainThread)
    \/ AsyncReceive(MainThread)
    \/ WorkerNext
    \/ Tick

SpecSeq == InitSeq /\ [][NextSeq]_vars

\* Steps of a Stop call by thread t.
StopNext(t) ==
    \/ StopCall(t)
    \/ StopFirstCheck(t)
    \/ StopLock(t)
    \/ StopCheck(t)
    \/ StopPerf(t)
    \/ StopJoin(t)
    \/ StopFinish(t)

\* The listener bring-up: a single caller starts and stops the engine over
\* every listener option and bind outcome; no transfer is made, so the perf
\* worker only loops.
InitListener == InitWith({<< 1, 1 >>}, 0)

NextListener ==
    \/ StartListener(MainThread)
    \/ Return(MainThread)
    \/ StopNext(MainThread)
    \/ PerfLoop
    \/ PerfTick

SpecListener == InitListener /\ [][NextListener]_vars

\* Memory registration: a single caller starts the engine over the RDMA
\* device selections and registers and deregisters regions, MaxMemCalls
\* times in all.
InitMem == InitWith({<< 1, 1 >>}, MaxMemCalls)

NextMem ==
    \/ StartDevices(MainThread)
    \/ RegisterMemoryAny(MainThread)
    \/ DeregisterMemoryAny(MainThread)
    \/ Return(MainThread)

SpecMem == InitMem /\ [][NextMem]_vars

\* The engine's fields under a single caller who starts it over every
\* listener option, stops it, reads the port and makes one transfer or
\* registration call without retries, with the perf worker running: what each
\* operation writes.
InitFrame == InitWith({<< 0, 0 >>}, 1)

NextFrame ==
    \/ StartListener(MainThread)
    \/ StopNext(MainThread)
    \/ Send(MainThread)
    \/ Receive(MainThread)
    \/ XferStore(MainThread)
    \/ XferQuery(MainThread)
    \/ XferExec(MainThread)
    \/ RegisterMemory(MainThread)
    \/ DeregisterMemory(MainThread)
    \/ GetBindPortCall(MainThread)
    \/ Return(MainThread)
    \/ WorkerNext

SpecFrame == InitFrame /\ [][NextFrame]_vars

\* Transfers under a single caller who starts the engine over the timeout
\* options and sends and receives, each direction retried once.
InitXfer == InitWith({<< 1, 1 >>}, MaxCalls)

NextXfer ==
    \/ StartTimeouts(MainThread)
    \/ Send(MainThread)
    \/ Receive(MainThread)
    \/ XferStore(MainThread)
    \/ XferQuery(MainThread)
    \/ XferExec(MainThread)
    \/ Return(MainThread)

SpecXfer == InitXfer /\ [][NextXfer]_vars

\* Two callers on the data path: the engine is started by the first thread,
\* then each thread sends or receives while the other may be inside its own
\* call, the clock advancing in between.  Retries are configured off and two
\* data-path calls are made in all; the perf worker is not scheduled.
InitRace == InitWith({<< 0, 0 >>}, 2)

\* A step of a Send / Receive call by thread t.
XferNext(t) ==
    \/ Send(t)
    \/ Receive(t)
    \/ XferStore(t)
    \/ XferQuery(t)
    \/ XferExec(t)

NextRace ==
    \/ Start(MainThread)
    \/ \E t \in Threads : XferNext(t)
    \/ \E t \in Threads : Return(t)
    \/ Tick

SpecRace == InitRace /\ [][NextRace]_vars

\* A caller on the data path and another stopping the engine: the first
\* thread starts the engine and sends or receives, with one retry configured,
\* while the second thread may run Stop at any point of that call; the perf
\* worker runs alongside.
Stopper == "t2"

InitStop == InitWith({<< 1, 1 >>}, 1)

NextStop ==
    \/ Start(MainThread)
    \/ XferNext(MainThread)
    \/ StopNext(Stopper)
    \/ \E t \in Threads : Return(t)
    \/ WorkerNext

SpecStop == InitStop /\ [][NextStop]_vars

\* The single-caller engine of SpecFrame under fair scheduling: the perf
\* worker keeps being scheduled (its sleep ends, utrans_print_perf_info
\* returns), and so does a caller inside Stop.
FairStop == WF_vars(WorkerNext) /\ WF_vars(StopNext(MainThread))

SpecFrameFair == SpecFrame /\ FairStop

\* The transfers of SpecXfer with every backend call returning: a caller
\* inside Send / Receive keeps taking its steps (utrans_query_instid and
\* utrans_exec_transfer return, the retry sleep ends).
FairXfer == WF_vars(XferStore(MainThread) \/ XferQuery(MainThread)
                      \/ XferExec(MainThread))

SpecXferFair == SpecXfer /\ FairXfer

\* Device selection: a single caller starts and stops the engine over every
\* GPU environment and every selection result; no transfer is made, so the
\* perf worker only loops.
InitSelect == InitWith({<< 0, 0 >>}, 0)

NextSelect ==
    \/ StartSelect(MainThread)
    \/ StopNext(MainThread)
    \/ Return(MainThread)
    \/ PerfLoop
    \/ PerfTick

SpecSelect == InitSelect /\ [][NextSelect]_vars

\* The life of one engine under a single caller: the operations of
\* SpecFrame, and the destructor at the end.
DtorNext(t) ==
    \/ DtorCall(t)
    \/ DtorClean(t)
    \/ DtorNull(t)
    \/ DtorMembers(t)

NextLife ==
    \/ NextFrame
    \/ DtorNext(MainThread)

SpecLife == InitFrame /\ [][NextLife]_vars

(* ------------------------------ properties ----------------------------- *)
\* Send and Receive calls.
IsXfer(c) == c.op \in {"Send", "Receive"}

\* Calls that use the backend context.
IsDataOp(c) == c.op \in {"Send", "Receive", "RegisterMemory", "DeregisterMemory"}

\* Backend contexts created by utrans_setup and not yet given to utrans_clean.
LiveContexts == {c \in 1..created : cleanCount[c] = 0}

\* C1: in every interleaving of Start, Send/Receive, Stop and destruction the
\* perf worker has exited and been joined before utrans_clean runs, and
\* utrans_print_perf_info is never called on a cleaned context.
C1_JoinedBeforeClean == ~cleanWithPerfAlive /\ ~printOnCleaned

\* C2: once Stop has returned on a Running engine the worker makes no further
\* utrans_print_perf_info call (it has been joined) and the context Start
\* created has been given to utrans_clean exactly once.
C2_ReleasedAfterStop ==
    stoppedCtx # NullCtx =>
        /\ perf_pc = "none"
        /\ cleanCount[stoppedCtx] = 1

C4_TransientThenSuccess ==
    \A t \in Threads :
        LET c == call[t]
            cfg == IF c.op = "Send" THEN send_retry_count ELSE recv_retry_count
        IN (IsXfer(c) /\ pc[t] = "ret") =>
             /\ (c.ret = "true" =>
                   /\ c.subs = c.bfails + 1
                   /\ c.attempts = c.qfails + c.bfails + 1
                   /\ c.sleeps = c.attempts - 1
                   /\ c.qfails + c.bfails <= cfg
                   /\ (c.qfails = 0 => c.sleeps = c.subs - 1))
             /\ (c.exc = "runtime_error" =>
                   /\ c.ret = "false"
                   /\ c.qfails + c.bfails = cfg + 1)

C4_Witness ==
    \E t \in Threads :
        /\ pc[t] = "ret" /\ call[t].op = "Receive" /\ call[t].ret = "true"
        /\ recv_retry_count = 2
        /\ call[t].bfails = 1 /\ call[t].qfails = 0
        /\ call[t].subs = 2 /\ call[t].sleeps = 1

\* C5: an attempt that raises NonRetryableException ends the call there: no
\* retry, no sleep, the call returns false; raised on the first attempt, one
\* submission has been made whatever the retry count.
C5_NonRetryableStops ==
    \A t \in Threads :
        call[t].nrAt > 0 =>
            /\ pc[t] = "ret"
            /\ call[t].ret = "false"
            /\ call[t].exc = "NonRetryable"
            /\ call[t].attempts = call[t].nrAt
            /\ (call[t].nrAt = 1 => /\ call[t].subs = 1
                                    /\ call[t].sleeps = 0
                                    /\ call[t].retries = 0)

C5_Witness ==
    \E t \in Threads :
        /\ pc[t] = "ret" /\ call[t].op = "Send" /\ call[t].ret = "false"
        /\ call[t].nrAt = 1 /\ call[t].subs = 1
        /\ send_retry_count = MaxRetry

\* C6: a Send / Receive never makes more than retry_count + 1 submissions
\* (attempts), whatever the backend does, and when every attempt fails with a
\* retryable error it returns false after exactly retry_count + 1 attempts.
C6_BoundedSubmissions ==
    \A t \in Threads :
        LET c == call[t]
            cfg == IF c.op = "Send" THEN send_retry_count ELSE recv_retry_count
        IN IsXfer(c) =>
             /\ c.subs <= cfg + 1
             /\ c.attempts <= cfg + 1
             /\ c.retries <= cfg
             /\ ((pc[t] = "ret" /\ c.exc = "runtime_error") =>
                    /\ c.ret = "false"
                    /\ c.attempts = cfg + 1)

C6_Witness ==
    \E t \in Threads :
        /\ pc[t] = "ret" /\ call[t].op = "Send" /\ call[t].ret = "false"
        /\ send_retry_count = MaxRetry
        /\ call[t].subs = MaxRetry + 1 /\ call[t].bfails = MaxRetry + 1

\* C7: every handle utrans_exec_transfer returned has been released exactly
\* once when the attempt that obtained it ends, so at every point of a Send /
\* Receive, and when it returns, handles obtained = handles released.
C7_HandlesReleased ==
    \A t \in Threads : call[t].obtained = call[t].released

C7_Witness ==
    \E t \in Threads :
        /\ pc[t] = "ret" /\ IsXfer(call[t])
        /\ call[t].obtained = 2 /\ call[t].released = 2
        /\ call[t].bfails = 1 /\ call[t].ret = "true"

\* C8: a Send, Receive, RegisterMemory or DeregisterMemory made while the
\* engine is not Running fails at once without any backend call.
C8_FailFastNotRunning ==
    \A t \in Threads :
        (IsDataOp(call[t]) /\ ~call[t].entRunning)
        => /\ pc[t] = "ret"
           /\ call[t].ret # "true"
           /\ call[t].queries = 0 /\ call[t].subs = 0 /\ call[t].regcalls = 0

\* C9: at most one context created by the engine is live at any time, and
\* exactly one, the one in ctx_, while the engine is Running.
C9_OneLiveContext ==
    /\ Cardinality(LiveContexts) <= 1
    /\ (is_running_ => LiveContexts = {ctx_})

\* C10, state part: every teardown belongs to its own successful Start, at
\* most one Stop is inside the teardown, and a Stop finds the engine not
\* Running only after a teardown has been done.
C10_TeardownCount ==
    /\ teardowns <= startsOK
    /\ Cardinality({t \in Threads :
                      pc[t] \in {"stop_perf", "stop_join", "stop_finish"}}) <= 1
    /\ ((startsOK >= 1 /\ ~is_running_) => teardowns >= 1)

\* C10, step part: a Stop that returns from one of its two checks changes
\* nothing of the engine, the worker or the backend.
C10_NoOpStop ==
    \A t \in Threads :
        (pc[t] \in {"stop_first", "stop_check"} /\ call[t].op = "Stop"
           /\ pc'[t] = "idle")
        => UNCHANGED << ctx_, is_running_, perf_logging_thread_running_,
                        perf_thread_joinable, last_send_receive_time_,
                        perfVars, backendVars, teardowns >>

\* C10: however many Stop calls are made on a Running engine, one after the
\* other or concurrently, the teardown is done once per Running period and
\* every other Stop is a no-op.
C10_StopIdempotent == [](C10_TeardownCount) /\ [][C10_NoOpStop]_vars

C10_Witness ==
    /\ startsOK = 1 /\ teardowns = 1 /\ ~is_running_
    /\ \E t \in Threads : pc[t] = "stop_check" /\ call[t].op = "Stop"

\* A Start call that has returned after reaching the listener bring-up.
StartReturned(t) ==
    /\ pc[t] = "ret" /\ call[t].op = "Start" /\ call[t].tried # << >>

\* C11: a fixed-port Start hands exactly one port, the local port option, to
\* utrans_setup_rpcsrv; when the bind succeeds Start returns true and
\* GetBindPort() is that port, when it fails Start returns false having tried
\* no other port.
C11_FixedPortOnce ==
    \A t \in Threads :
        (StartReturned(t) /\ call[t].fixed) =>
            /\ call[t].tried = << call[t].optPort >>
            /\ call[t].ret \in {"true", "false"}
            /\ (call[t].ret = "true" => GetBindPort = call[t].optPort)

C11_Witness ==
    \E t \in Threads :
        /\ StartReturned(t) /\ call[t].fixed /\ call[t].ret = "true"
        /\ call[t].optPort = kRdmaPortStart + 1
        /\ GetBindPort = kRdmaPortStart + 1

\* C12: in a scan-mode Start with offset r in [0, 1000] every port handed to
\* utrans_setup_rpcsrv lies in [51010 + r, 51010 + r + kBindPortMaxRetry), and
\* after a successful one GetBindPort() lies in
\* [51010, 51010 + 1000 + kBindPortMaxRetry).
C12_ScanPortRange ==
    \A t \in Threads :
        (StartReturned(t) /\ ~call[t].fixed) =>
            LET lo == kRdmaPortStart + call[t].offset
            IN /\ call[t].offset \in 0..kRandomOffsetMax
               /\ \A i \in 1..Len(call[t].tried) :
                     /\ call[t].tried[i] >= lo
                     /\ call[t].tried[i] < lo + kBindPortMaxRetry
               /\ (call[t].ret = "true" =>
                     /\ GetBindPort >= kRdmaPortStart
                     /\ GetBindPort < kRdmaPortStart + kRandomOffsetMax
                                        + kBindPortMaxRetry)

C12_Witness ==
    \E t \in Threads :
        /\ StartReturned(t) /\ ~call[t].fixed /\ call[t].ret = "true"
        /\ call[t].offset = kRandomOffsetMax
        /\ GetBindPort = kRdmaPortStart + kRandomOffsetMax + kBindPortMaxRetry - 1

\* C13: a scan-mode Start tries base, base + 1, ... in this order and stops at
\* the first bind that succeeds: returning true after j failed binds it made
\* j + 1 calls (j < kBindPortMaxRetry) and GetBindPort() = base + j; it gives
\* up only when kBindPortMaxRetry binds have failed.
C13_ScanInOrder ==
    \A t \in Threads :
        (StartReturned(t) /\ ~call[t].fixed) =>
            LET base == kRdmaPortStart + call[t].offset
                n == Len(call[t].tried)
            IN /\ \A i \in 1..n : call[t].tried[i] = base + (i - 1)
               /\ (call[t].ret = "true" =>
                     /\ n - 1 < kBindPortMaxRetry
                     /\ GetBindPort = base + (n - 1)
                     /\ GetBindPort = call[t].tried[n])
               /\ (call[t].ret = "false" => n = kBindPortMaxRetry)

C13_Witness ==
    \E t \in Threads :
        /\ StartReturned(t) /\ ~call[t].fixed /\ call[t].ret = "true"
        /\ Len(call[t].tried) = 2
        /\ GetBindPort = kRdmaPortStart + call[t].offset + 1

C15_SpawnIff ==
    \A t \in Threads :
        (pc[t] = "ret" /\ call[t].op = "Start") =>
            (call[t].spawned <=>
                (call[t].ret = "true" /\ call[t].perfOpt /\ ctx_ # NullCtx))

\* C15, step part: a perf worker comes to life only in a successful Start with
\* perf metrics enabled, and utrans_print_perf_info is called by a live
\* worker only.
C15_WorkerStarts ==
    /\ (perf_pc = "none" /\ perf_pc' # "none") =>
          \E t \in Threads :
              /\ pc'[t] = "ret" /\ call'[t].op = "Start"
              /\ call'[t].ret = "true" /\ call'[t].perfOpt
              /\ ctx_' # NullCtx
    /\ (perf_pc = "print" /\ perf_pc' # "print") => perf_thread_joinable

\* C15: Start creates a perf worker iff perf metrics are enabled and the
\* context is live at the end of a Start whose context setup and listener
\* bring-up succeeded; with perf metrics disabled no worker is ever created
\* and utrans_print_perf_info is never called.
C15_PerfWorkerIff == [](C15_SpawnIff) /\ [][C15_WorkerStarts]_vars

C15_Witness ==
    /\ \E t \in Threads :
         /\ pc[t] = "ret" /\ call[t].op = "Start" /\ call[t].ret = "true"
         /\ ~call[t].perfOpt /\ ~call[t].spawned
    /\ ctx_ # NullCtx /\ is_running_ /\ startsOK = 1
    /\ perf_pc = "none" /\ ~perf_thread_joinable

\* A RegisterMemory / DeregisterMemory call by t has just been made.
MemCallMade(t, opname) ==
    pc[t] = "idle" /\ pc'[t] = "ret" /\ call'[t].op = opname

\* C16, state part: on every region, the DeregisterMemory calls that returned
\* true are no more than the RegisterMemory calls that returned true.
C16_Counts ==
    \A r \in AllRegions : memLog[r].deregOK <= memLog[r].regOK

\* C16, step part: once a DeregisterMemory of a region has returned true, a
\* further DeregisterMemory of it returns false unless a RegisterMemory of it
\* has returned true in between.
C16_SubsequentFalse ==
    \A t \in Threads :
        (MemCallMade(t, "DeregisterMemory") /\ memLog[call'[t].region].gone)
            => call'[t].ret = "false"

\* C16: for every successful RegisterMemory(addr, len) at most one later
\* DeregisterMemory(addr, len) returns true and the following ones return
\* false, over any sequence of register and deregister calls, the same pair
\* registered twice included.
C16_OneTrueDeregister == [](C16_Counts) /\ [][C16_SubsequentFalse]_vars

C16_Witness ==
    \E t \in Threads :
        /\ pc[t] = "ret" /\ call[t].op = "DeregisterMemory"
        /\ call[t].ret = "false" /\ call[t].regcalls = 1
        /\ memLog[call[t].region].regOK = 2
        /\ memLog[call[t].region].deregOK = 1
        /\ memLog[call[t].region].gone

\* C17: RegisterMemory returns true only when the backend gave a non-null
\* registration handle; a null handle is raised as std::runtime_error, never
\* returned as true; a registration that failed leaves the registered regions
\* as they were, and one that succeeded has the region registered.
C17_RegisterOutcome ==
    \A t \in Threads :
        (pc[t] = "ret" /\ call[t].op = "RegisterMemory") =>
            /\ call[t].ret = "true" => (call[t].regcalls = 1 /\ call[t].mrOK)
            /\ (call[t].regcalls = 1 /\ ~call[t].mrOK)
                   => call[t].ret = "runtime_error"
            /\ call[t].ret # "true" => regs = call[t].regsBefore
            /\ call[t].ret = "true" => << ctx_, call[t].region >> \in regs

C17_Witness ==
    \E t \in Threads :
        /\ pc[t] = "ret" /\ call[t].op = "RegisterMemory"
        /\ ctx_ # NullCtx /\ call[t].regcalls = 1 /\ ~call[t].mrOK
        /\ call[t].ret = "runtime_error"
        /\ call[t].regsBefore # {} /\ regs = call[t].regsBefore

\* C18, state part: DeregisterMemory returns true or false and nothing else,
\* true exactly when utrans_dereg_mem answered 0; on a region that is not
\* registered, or without a context, it returns false and the registered
\* regions stay as they were; no other region's registration changes.
C18_DeregOutcome ==
    \A t \in Threads :
        (pc[t] = "ret" /\ call[t].op = "DeregisterMemory") =>
            LET key == << ctx_, call[t].region >>
            IN /\ call[t].ret \in {"true", "false"}
               /\ call[t].regcalls = 1 => (call[t].ret = "true" <=> call[t].rc = 0)
               /\ (ctx_ = NullCtx \/ key \notin call[t].regsBefore)
                      => (call[t].ret = "false" /\ regs = call[t].regsBefore)
               /\ regs \ {key} = call[t].regsBefore \ {key}

\* C18, step part: a DeregisterMemory call changes no field of the engine,
\* nothing of the perf worker and no backend context.
C18_EngineUntouched ==
    \A t \in Threads :
        MemCallMade(t, "DeregisterMemory")
            => UNCHANGED << engineVars, perfVars, created, cleanCount >>

\* C18: DeregisterMemory never raises and returns exactly the backend's
\* success; deregistering a region that is not registered, or with no
\* context, returns false and leaves the engine and every other registration
\* unchanged.
C18_DeregisterNeverRaises == [](C18_DeregOutcome) /\ [][C18_EngineUntouched]_vars

C18_Witness ==
    \E t \in Threads :
        /\ pc[t] = "ret" /\ call[t].op = "DeregisterMemory"
        /\ ctx_ # NullCtx /\ call[t].regcalls = 1
        /\ << ctx_, call[t].region >> \notin call[t].regsBefore
        /\ call[t].regsBefore # {}
        /\ call[t].ret = "false" /\ regs = call[t].regsBefore

IsAsync(c) == c.op \in {"AsyncSend", "AsyncReceive"}

\* C20, state part: an async call has raised "Not implemented" and has called
\* no backend function.
C20_Raised ==
    \A t \in Threads :
        (pc[t] = "ret" /\ IsAsync(call[t])) =>
            /\ call[t].ret = "runtime_error:Not implemented"
            /\ call[t].queries = 0 /\ call[t].subs = 0 /\ call[t].regcalls = 0
            /\ call[t].obtained = 0

\* C20, step part: the step of an async call changes nothing but the
\* caller's own position.
C20_NothingChanged ==
    \A t \in Threads :
        (pc[t] = "idle" /\ pc'[t] = "ret" /\ IsAsync(call'[t]))
            => UNCHANGED << engineVars, perfVars, backendVars, obsVars, envVars >>

\* C20: AsyncSend and AsyncReceive always raise a "not implemented" error,
\* in every engine state and for every argument, without calling the backend
\* and without changing any engine state.
C20_AsyncNotImplemented == [](C20_Raised) /\ [][C20_NothingChanged]_vars

C20_Witness ==
    \E t \in Threads :
        /\ pc[t] = "ret" /\ call[t].op = "AsyncSend"
        /\ call[t].buf /\ call[t].len = 1
        /\ ctx_ # NullCtx /\ is_running_ /\ call[t].entRunning
        /\ call[t].ret = "runtime_error:Not implemented"

\* The last element of a non-empty sequence.
Last(seq) == seq[Len(seq)]

\* Thread t has just made a call of opname that returned at once.
CallMade(t, opname) ==
    pc[t] = "idle" /\ pc'[t] = "ret" /\ call'[t].op = opname

\* C21 as stated: once local_server_port_ has been written it never changes
\* again, whatever operation follows, a further Start included.
C21_WrittenOnce ==
    [][local_server_port_ # 0 => local_server_port_' = local_server_port_]_vars

\* C21, state part: a Start that returned true has left in local_server_port_
\* the port of its successful bind, one that returned false has left the
\* field as it was, and GetBindPort returns the field.
C21_PortOfLastBind ==
    \A t \in Threads :
        /\ (pc[t] = "ret" /\ call[t].op = "Start") =>
              IF call[t].ret = "true"
                THEN /\ call[t].tried # << >>
                     /\ local_server_port_ = Last(call[t].tried)
                ELSE local_server_port_ = call[t].portBefore
        /\ (pc[t] = "ret" /\ call[t].op = "GetBindPort") =>
              call[t].port = local_server_port_

\* C21, step part: local_server_port_ changes in no step but a Start whose
\* listener bind succeeded.
C21_OnlyStartWrites ==
    local_server_port_' # local_server_port_ =>
        \/ \E t \in Threads : CallMade(t, "Start") /\ call'[t].ret = "true"
        \/ ~crashed /\ crashed'

\* C21: local_server_port_ is written by Start only, and only when the
\* listener bind succeeded; Send, Receive, RegisterMemory, DeregisterMemory,
\* Stop and GetBindPort leave it unchanged, and so does a further Start whose
\* bind fails, while a further Start whose bind succeeds writes it again.
C21_PortWrittenByStart == [](C21_PortOfLastBind) /\ [][C21_OnlyStartWrites]_vars

C21_Witness ==
    \E t \in Threads :
        /\ pc[t] = "ret" /\ call[t].op = "Start" /\ call[t].ret = "true"
        /\ call[t].portBefore # 0
        /\ local_server_port_ # call[t].portBefore
        /\ startsOK = 2

\* C22, state part: a Start whose context creation failed has returned false
\* having called nothing after utrans_setup, with no worker created and ctx_
\* and is_running_ as they were (no context and not Running on an engine
\* that had no context); a Start that returned true has set up the context,
\* brought the listener up, created the worker if perf metrics are enabled
\* and set is_running_, in that order.
C22_StartOutcome ==
    \A t \in Threads :
        (pc[t] = "ret" /\ call[t].op = "Start") =>
            /\ ~call[t].ctxOK =>
                  /\ call[t].ret = "false"
                  /\ call[t].steps = << "utrans_setup" >>
                  /\ call[t].tried = << >> /\ ~call[t].spawned
                  /\ ctx_ = call[t].ctxBefore
                  /\ is_running_ = call[t].entRunning
                  /\ call[t].ctxBefore = NullCtx =>
                        (ctx_ = NullCtx /\ ~is_running_ /\ perf_pc = "none")
            /\ call[t].ret = "true" =>
                  /\ call[t].ctxOK /\ ctx_ # NullCtx /\ is_running_
                  /\ call[t].tried # << >>
                  /\ call[t].steps =
                        << "utrans_setup", "utrans_setup_rpcsrv" >>
                          \o (IF call[t].perfOpt THEN << "std::thread" >>
                                                 ELSE << >>)
                          \o << "is_running_" >>
                  /\ call[t].perfOpt => (call[t].spawned /\ perf_thread_joinable)

\* C22, step part: a Start whose context creation failed changes neither the
\* context, nor is_running_, nor the listener port, nor the perf worker.
C22_FailedSetupFrame ==
    \A t \in Threads :
        (CallMade(t, "Start") /\ ~call'[t].ctxOK) =>
            UNCHANGED << ctx_, is_running_, local_server_port_, created,
                         perf_logging_thread_running_, perf_thread_joinable,
                         perfVars >>

Rejected(c) == IsXfer(c) /\ c.attempts = 0 /\ c.stores = 0 /\ c.ret # "none"

\* The first precondition the call violates, in the order context, local
\* buffer, remote address; "none" when it violates none.
FirstViolation(c, ctx) ==
    IF ctx = NullCtx THEN "context"
    ELSE IF ~c.buf \/ c.len = 0 THEN "data"
    ELSE IF ~c.rbuf THEN "remote"
    ELSE "none"

C24_LookupPerAttempt ==
    \A t \in Threads :
        IsXfer(call[t]) =>
            /\ call[t].queries = call[t].attempts
            /\ call[t].subs = call[t].queries - call[t].qfails
            /\ pc[t] = "xfer_exec" => call[t].subs > 0

\* C24, step part: an attempt starts with the lookup, and a submission is
\* made only in an attempt whose lookup succeeded; when the lookup fails the
\* attempt ends without a submission, in a retry while retries are left and
\* in a false return once they are used up.
C24_FailedLookupRetried ==
    \A t \in Threads :
      /\ (IsXfer(call[t]) /\ IsXfer(call'[t])
             /\ call'[t].subs # call[t].subs)
          => /\ pc[t] = "xfer_attempt" /\ pc'[t] = "xfer_exec"
             /\ call'[t].subs = call[t].subs + 1
             /\ call'[t].queries = call[t].queries + 1
             /\ call'[t].qfails = call[t].qfails
      /\ (pc[t] = "xfer_attempt" /\ call'[t].attempts = call[t].attempts + 1)
          => /\ call'[t].queries = call[t].queries + 1
             /\ call'[t].qfails # call[t].qfails =>
                   /\ call'[t].subs = call[t].subs
                   /\ IF call[t].retries < call[t].retryN
                        THEN /\ pc'[t] = "xfer_attempt"
                             /\ call'[t].retries = call[t].retries + 1
                        ELSE pc'[t] = "ret" /\ call'[t].ret = "false"

\* C24: every attempt of Send / Receive first resolves the peer with
\* utrans_query_instid, nothing being cached across attempts or calls, and
\* utrans_exec_transfer is called only after that lookup succeeded in the
\* same attempt; a failed lookup ends the attempt as a retryable failure
\* with no submission.
C24_LookupBeforeTransfer ==
    [](C24_LookupPerAttempt) /\ [][C24_FailedLookupRetried]_vars

C24_Witness ==
    \E t \in Threads :
        /\ pc[t] = "xfer_exec" /\ IsXfer(call[t])
        /\ call[t].attempts = 2 /\ call[t].queries = 2
        /\ call[t].qfails = 1 /\ call[t].subs = 1 /\ call[t].retries = 1

\* C25: every transfer Send submits carries USER_OP_WRITE and the write
\* timeout, every transfer Receive submits carries USER_OP_READ and the read
\* timeout; both are submitted with 4 pollers and a chunk of 1 MiB, and a
\* timeout of -1 reaches the backend as -1.
C25_RequestOfDirection ==
    \A t \in Threads :
        IsXfer(call[t]) =>
            IF call[t].subs = 0 THEN call[t].req = NoRequest
            ELSE /\ call[t].req.pollers = 4
                 /\ call[t].req.chunk = 1048576
                 /\ call[t].op = "Send" =>
                       /\ call[t].req.opcode = "USER_OP_WRITE"
                       /\ call[t].req.timeout = write_timeout_ms_
                 /\ call[t].op = "Receive" =>
                       /\ call[t].req.opcode = "USER_OP_READ"
                       /\ call[t].req.timeout = read_timeout_ms_

C25_Witness ==
    \E t \in Threads :
        /\ pc[t] = "xfer_exec" /\ call[t].op = "Send" /\ call[t].subs = 1
        /\ write_timeout_ms_ = -1 /\ read_timeout_ms_ = 3000
        /\ call[t].req.opcode = "USER_OP_WRITE" /\ call[t].req.timeout = -1

\* C26, step part: a tick of the perf worker goes on to
\* utrans_print_perf_info exactly when less than 1000 ms have passed since
\* last_send_receive_time_, and otherwise goes back to sleep; nothing but a
\* tick that found recent activity leads to the call.
C26_TickPrintsIffRecent ==
    /\ (perf_pc = "sleep" /\ perf_pc' # "sleep") =>
          IF now - last_send_receive_time_ < 1000
            THEN perf_pc' = "check"
            ELSE perf_pc' = "loop" /\ UNCHANGED << backendVars, obsVars >>
    /\ (perf_pc # "check" /\ perf_pc' = "check") => perf_pc = "sleep"
    /\ (perf_pc = "check" /\ perf_pc' # "check") => perf_pc' = "print"
    /\ (perf_pc # "print" /\ perf_pc' = "print") => perf_pc = "check"

\* C26, state part: a tick that found recent activity finds a context to
\* print, and without any Send or Receive so far no tick finds activity.
C26_RecentHasContext ==
    /\ perf_pc \in {"check", "print"} => ctx_ # NullCtx
    /\ perf_pc \in {"check", "print"} => last_send_receive_time_ # 0

\* C26: on each tick the perf worker calls utrans_print_perf_info(ctx_) if
\* and only if the time since last_send_receive_time_ is strictly less than
\* 1000 ms; with no Send / Receive in the last second, or none ever, the tick
\* makes no backend call.
C26_PerfTickWindow == [](C26_RecentHasContext) /\ [][C26_TickPrintsIffRecent]_vars

C26_Witness ==
    /\ perf_pc = "print"
    /\ ctx_ # NullCtx
    /\ last_send_receive_time_ = now
    /\ now = ClockStart + TickMs

\* C27, state part: a Send / Receive call that passed the precondition
\* checks stores the clock value it read into last_send_receive_time_ once,
\* before its first backend call, and the value stays whether the transfer
\* succeeds, fails or is retried; a rejected call stores nothing.
C27_StoredOnce ==
    \A t \in Threads :
        IsXfer(call[t]) =>
            /\ pc[t] = "xfer_store" =>
                  /\ call[t].stores = 0 /\ call[t].queries = 0
                  /\ call[t].tnow <= now
            /\ pc[t] \in {"xfer_attempt", "xfer_exec"} =>
                  (call[t].stores = 1 /\ last_send_receive_time_ = call[t].tnow)
            /\ pc[t] = "ret" =>
                  IF call[t].attempts = 0
                    THEN call[t].stores = 0
                    ELSE /\ call[t].stores = 1
                         /\ last_send_receive_time_ = call[t].tnow

\* C27, step part: last_send_receive_time_ changes in no step but the store
\* of a call that passed the checks.
C27_OnlyStoreWrites ==
    last_send_receive_time_' # last_send_receive_time_ =>
        \E t \in Threads :
            /\ pc[t] = "xfer_store" /\ pc'[t] = "xfer_attempt"
            /\ last_send_receive_time_' = call[t].tnow

\* C27: every Send / Receive call that passes argument validation sets
\* last_send_receive_time_ to the current time once, before the first backend
\* call and whatever becomes of the transfer; a call rejected by validation
\* leaves it unchanged.
C27_ActivityRecorded == [](C27_StoredOnce) /\ [][C27_OnlyStoreWrites]_vars

C27_Witness ==
    \E t \in Threads :
        /\ pc[t] = "ret" /\ call[t].op = "Send" /\ call[t].ret = "false"
        /\ call[t].retries > 0 /\ call[t].stores = 1
        /\ call[t].tnow = ClockStart + TickMs
        /\ last_send_receive_time_ = call[t].tnow

\* C28: last_send_receive_time_ never decreases, under any interleaving of
\* concurrent Send / Receive calls, each of which reads the clock and then
\* stores the value.
C28_NeverDecreases ==
    [][last_send_receive_time_' >= last_send_receive_time_]_vars

\* The operations that use the engine between Start and Stop.
UseOps == {"Send", "Receive", "RegisterMemory", "DeregisterMemory", "GetBindPort"}

\* Thread t takes a step inside, into or out of a call of one of UseOps.
UseStep(t) ==
    /\ << pc[t], call[t] >> # << pc'[t], call'[t] >>
    /\ call[t].op \in UseOps \/ call'[t].op \in UseOps

\* C29, state part: once a Start has succeeded the engine holds a context
\* the backend created, whatever was called since.
C29_ContextKept ==
    startsOK > 0 => (ctx_ # NullCtx /\ ctx_ \in 1..created)

\* C29, step part: a step of Send, Receive, RegisterMemory, DeregisterMemory
\* or GetBindPort, and a step of the perf worker, leaves ctx_ as it was; the
\* pointer changes in a Start step only (one that returns, or one that ends
\* the process).
C29_OnlyStartWritesCtx ==
    /\ \A t \in Threads : UseStep(t) => ctx_' = ctx_
    /\ perf_pc' # perf_pc /\ pc' = pc => ctx_' = ctx_
    /\ ctx_' # ctx_ =>
          \/ \E t \in Threads : CallMade(t, "Start")
          \/ ~crashed /\ crashed'

\* C29: the backend context pointer is modified by no operation between the
\* end of a successful Start and the beginning of Stop: Send, Receive,
\* RegisterMemory, DeregisterMemory, GetBindPort and the perf ticks all leave
\* it unchanged.
C29_ContextImmutable == [](C29_ContextKept) /\ [][C29_OnlyStartWritesCtx]_vars

C29_Witness ==
    \E t \in Threads :
        /\ pc[t] = "ret" /\ call[t].op = "Receive" /\ call[t].ret = "true"
        /\ is_running_ /\ ctx_ = 1 /\ startsOK = 1
        /\ perf_pc = "print"

\* The positions of a Send / Receive call that passed the checks.
XferPcs == {"xfer_store", "xfer_attempt", "xfer_exec"}

\* Thread t takes a step inside, into or out of a Send / Receive call.
XferStep(t) ==
    /\ << pc[t], call[t] >> # << pc'[t], call'[t] >>
    /\ IsXfer(call[t]) \/ IsXfer(call'[t])

\* C30, state part: a thread inside Send / Receive holds no engine lock, and
\* its next step can be taken wherever the other thread stands, inside
\* utrans_exec_transfer included.
C30_NeverBlocked ==
    \A t \in Threads :
        (~crashed /\ pc[t] \in XferPcs) =>
            /\ close_mutex_ = "free"
            /\ ENABLED (XferStore(t) \/ XferQuery(t) \/ XferExec(t))

\* C30, step part: a step of a Send / Receive call writes no engine member
\* but last_send_receive_time_, and leaves the other thread's call alone.
C30_WritesOnlyActivity ==
    \A t \in Threads :
        XferStep(t) =>
            /\ UNCHANGED << ctx_, is_running_, perf_logging_thread_running_,
                            perf_thread_joinable, close_mutex_, send_retry_count,
                            recv_retry_count, local_server_port_, rdma_numa_node_,
                            nic_nodes_, read_timeout_ms_, write_timeout_ms_ >>
            /\ \A u \in Threads \ {t} : pc'[u] = pc[u] /\ call'[u] = call[u]

\* C30: the engine holds no lock on the data path: two threads calling
\* Send / Receive can both be inside utrans_exec_transfer at the same time,
\* neither call can block or delay the other through engine state, and the
\* only shared engine state they write is last_send_receive_time_.
C30_NoDataPathLock == [](C30_NeverBlocked) /\ [][C30_WritesOnlyActivity]_vars

C30_Witness ==
    /\ \A t \in Threads : pc[t] = "xfer_exec" /\ call[t].subs = 1
    /\ call["t1"].op = "Send" /\ call["t2"].op = "Receive"
    /\ ctx_ # NullCtx /\ ~crashed

\* The positions of a Stop call (by Stop() or inside the destructor).
StopPcs == {"stop_first", "stop_lock", "stop_check", "stop_perf", "stop_join",
            "stop_finish"}

\* C31, state part: a Send / Receive in flight can always take its next step,
\* whatever a Stop on another thread has done and while it holds
\* close_mutex_; a Stop waits for nothing but close_mutex_ and the perf
\* worker's exit, whatever calls are in flight; and a call that has returned
\* false on a retryable failure has used every configured attempt.
C31_NeitherWaits ==
    \A t \in Threads :
        /\ (~crashed /\ pc[t] \in XferPcs) =>
              ENABLED (XferStore(t) \/ XferQuery(t) \/ XferExec(t))
        /\ (~crashed /\ pc[t] \in StopPcs) =>
              \/ ENABLED StopNext(t)
              \/ pc[t] = "stop_lock" /\ close_mutex_ # "free"
              \/ pc[t] = "stop_join" /\ perf_pc # "exited"
        /\ (IsXfer(call[t]) /\ pc[t] = "ret" /\ call[t].exc = "runtime_error") =>
              call[t].attempts = RetryCountFor(call[t].op) + 1

\* C31, step part: a step of Stop leaves every other thread's call as it is,
\* and an attempt whose lookup succeeded submits its transfer whether or not
\* the engine is still Running.
C31_NoCancel ==
    \A t \in Threads :
        /\ (pc[t] \in StopPcs \/ pc'[t] \in StopPcs) /\ pc'[t] # pc[t] =>
              \A u \in Threads \ {t} : pc'[u] = pc[u] /\ call'[u] = call[u]
        /\ (pc[t] = "xfer_attempt" /\ pc'[t] = "xfer_exec") =>
              call'[t].subs = call[t].subs + 1

\* C31: Stop neither cancels nor waits for in-flight transfers: a Send /
\* Receive in progress when Stop runs continues its attempts and retries to
\* completion, and Stop can return while that call is still in flight.
C31_StopIgnoresInFlight == [](C31_NeitherWaits) /\ [][C31_NoCancel]_vars

C31_Witness ==
    \E t \in Threads, u \in Threads :
        /\ t # u /\ ~crashed /\ lifecycle = "alive"
        /\ pc[t] = "xfer_exec" /\ call[t].entRunning /\ call[t].retries = 1
        /\ pc[u] = "idle" /\ ~is_running_ /\ teardowns = 1
        /\ stoppedCtx = ctx_ /\ ctx_ # NullCtx

\* C32, state part: a Stop that has cleared the flag and is waiting in join()
\* has a worker to wait for, which is running or has exited.
C32_JoinHasWorker ==
    \A t \in Threads :
        pc[t] = "stop_join" =>
            /\ ~perf_logging_thread_running_ /\ perf_thread_joinable
            /\ perf_pc \in {"loop", "sleep", "check", "print", "exited"}

\* C32, step part: a worker that reads a cleared flag at its loop check
\* exits, and join() returns only once it has.
C32_WorkerObservesFlag ==
    /\ (perf_pc = "loop" /\ perf_pc' # "loop" /\ ~perf_logging_thread_running_) =>
          perf_pc' = "exited"
    /\ \A t \in Threads :
          (pc[t] = "stop_join" /\ pc'[t] # "stop_join") =>
              (perf_pc = "exited" /\ pc'[t] = "stop_finish")

\* C32, progress part: a Stop call that has begun returns, with the engine
\* not Running and no worker left.
C32_StopReturns ==
    \A t \in Threads :
        (pc[t] \in StopPcs) ~>
            (pc[t] = "idle" /\ ~is_running_ /\ perf_pc = "none")

\* C32: Stop always terminates: once Stop has cleared the perf running flag
\* the perf worker, scheduled fairly and with utrans_print_perf_info
\* returning, observes it at its next loop check and exits, so the join
\* completes and the engine reaches the not-running state.
C32_StopTerminates ==
    /\ [](C32_JoinHasWorker)
    /\ [][C32_WorkerObservesFlag]_vars
    /\ C32_StopReturns

C32_Witness ==
    \E t \in Threads :
        /\ pc[t] = "stop_finish" /\ call[t].op = "Stop"
        /\ perf_pc = "none" /\ ~perf_thread_joinable
        /\ ~perf_logging_thread_running_ /\ is_running_
        /\ teardowns = 1 /\ last_send_receive_time_ = now

\* Submissions of call c that utrans_exec_transfer has ended: by a failed
\* status or a null handle, by NonRetryableException, or by success.
Ended(c) ==
    c.bfails + (IF c.nrAt > 0 THEN 1 ELSE 0) + (IF c.ret = "true" THEN 1 ELSE 0)

C33_Synchronous ==
    \A t \in Threads :
        LET c == call[t]
        IN IsXfer(c) =>
             /\ c.subs - Ended(c) = (IF pc[t] = "xfer_exec" THEN 1 ELSE 0)
             /\ pc[t] \in {"xfer_attempt", "xfer_exec", "ret"} =>
                   c.attempts <= RetryCountFor(c.op) + 1
             /\ pc[t] = "ret" =>
                   IF c.attempts > 0
                     THEN /\ c.ret \in {"true", "false"}
                          /\ c.obtained = c.released
                     ELSE /\ c.ret \in {"false"} \cup ArgErrors
                          /\ c.subs = 0

\* C33, progress part: a call that passed the checks returns.
C33_CallReturns ==
    \A t \in Threads : (pc[t] \in XferPcs) ~> (pc[t] = "ret")

Selectors == {"SelectRdmaDevices", "SelectRdmaDevicesByRank"}

\* C34: a Start has invoked exactly one selector: the topology-based
\* SelectRdmaDevices(gpu = d, max = M) exactly when the GPU runtime query
\* succeeded with an index d >= 0, and the rank-based
\* SelectRdmaDevicesByRank(rank = role_rank, max = M) in every other case.
C34_SelectorDispatch ==
    \A t \in Threads :
        (pc[t] = "ret" /\ call[t].op = "Start") =>
            LET c == call[t]
            IN /\ c.sel.selector \in Selectors
               /\ c.sel.max = c.sel.env.max
               /\ c.sel.selector = "SelectRdmaDevices" <=>
                     (c.sel.env.cudaOK /\ c.sel.env.dev >= 0)
               /\ c.sel.selector = "SelectRdmaDevices" =>
                     c.sel.arg = c.sel.env.dev
               /\ c.sel.selector = "SelectRdmaDevicesByRank" =>
                     c.sel.arg = c.sel.env.rank

C34_Witness ==
    \E t \in Threads :
        /\ pc[t] = "ret" /\ call[t].op = "Start" /\ call[t].ret = "true"
        /\ call[t].sel.env.cudaOK /\ call[t].sel.env.dev = -1
        /\ call[t].sel.selector = "SelectRdmaDevicesByRank"
        /\ call[t].sel.arg = 3 /\ call[t].sel.max = 2
        /\ ~call[t].sel.initTried /\ call[t].sel.initOK
        /\ startsOK = 2

\* C35: when topology initialization fails the selection is rank-based, even
\* with a CUDA device active, and neither that failure nor an empty
\* selection ends Start: it goes on to utrans_setup, which is given no
\* device pattern when the selection is empty.
C35_RankFallback ==
    \A t \in Threads :
        (pc[t] = "ret" /\ call[t].op = "Start") =>
            LET c == call[t]
            IN /\ ~c.sel.initOK => c.sel.selector = "SelectRdmaDevicesByRank"
               /\ Did(c.steps, "utrans_setup")
               /\ ~c.selected => c.devPatt = "null"
               /\ c.ret = "false" =>
                     \/ ~c.ctxOK
                     \/ /\ Did(c.steps, "utrans_setup_rpcsrv")
                        /\ ~Did(c.steps, "is_running_")

\* C36, state part: a Send / Receive made on an engine without a backend
\* context is over at once: Send has returned false, Receive has raised the
\* argument error, no backend call was made and nothing was stored.
C36_RejectedWithoutContext ==
    \A t \in Threads :
        (IsXfer(call[t]) /\ ctx_ = NullCtx) =>
            LET c == call[t]
            IN /\ pc[t] = "ret"
               /\ c.ret = (IF c.op = "Send" THEN "false"
                           ELSE "invalid_argument:context")
               /\ c.exc = "none"
               /\ c.attempts = 0 /\ c.queries = 0 /\ c.subs = 0
               /\ c.obtained = 0 /\ c.stores = 0

\* C36, step part: the call leaves last_send_receive_time_ and the backend
\* as they were.
C36_NothingTouched ==
    \A t \in Threads :
        (pc[t] = "idle" /\ IsXfer(call'[t]) /\ ctx_ = NullCtx) =>
            /\ pc'[t] = "ret"
            /\ UNCHANGED << engineVars, backendVars >>

\* C36: on an engine whose backend context is not initialized, Send returns
\* false without raising while Receive raises an argument error; in both
\* cases no backend call is made and last_send_receive_time_ is unchanged.
C36_NoContextOutcome == [](C36_RejectedWithoutContext) /\ [][C36_NothingTouched]_vars

C36_Witness ==
    \E t \in Threads :
        /\ pc[t] = "ret" /\ call[t].op = "Receive"
        /\ call[t].ret = "invalid_argument:context"
        /\ call[t].buf /\ call[t].len = 1 /\ call[t].rbuf
        /\ ctx_ = NullCtx /\ last_send_receive_time_ = 0

\* Stop has cleared the perf running flag and the worker is not joined yet.
FlagCleared == ~perf_logging_thread_running_ /\ perf_thread_joinable

\* C37, state part: by the time Stop is past the join, on its way to return,
\* the worker has finished and is joined.
C37_TickDoneBeforeReturn ==
    \A t \in Threads : pc[t] = "stop_finish" => perf_pc = "none"

\* C37, step part: once the flag is cleared the worker begins no new tick,
\* so the tick it was in (its sleep, its check and its one print) is the
\* last; and the worker leaves only from the loop check, never from inside
\* a tick.
C37_NoNewTick ==
    /\ FlagCleared => ~(perf_pc = "loop" /\ perf_pc' = "sleep")
    /\ (perf_pc # "exited" /\ perf_pc' = "exited") => perf_pc = "loop"
    /\ (perf_pc = "sleep" /\ perf_pc' # "sleep") => perf_pc' \in {"check", "loop"}
    /\ (perf_pc = "check" /\ perf_pc' # "check") => perf_pc' \in {"print", "loop"}
    /\ (perf_pc = "print" /\ perf_pc' # "print") => perf_pc' = "loop"

\* C37: after Stop clears the perf running flag the perf worker performs at
\* most one further tick (and so at most one further utrans_print_perf_info
\* call), and that tick completes before Stop returns; the flag is examined
\* at the top of the loop only, after the tick's sleep and check.
C37_OneFurtherTick == [](C37_TickDoneBeforeReturn) /\ [][C37_NoNewTick]_vars

C37_Witness ==
    \E t \in Threads :
        /\ pc[t] = "stop_join" /\ FlagCleared
        /\ perf_pc = "print" /\ ctx_ # NullCtx /\ is_running_

\* Thread t takes a step of Stop(), called by the caller or by the destructor.
StopStep(t) ==
    /\ pc'[t] # pc[t]
    /\ pc[t] \in StopPcs \/ pc'[t] = "stop_first"

\* C38, state part: GetBindPort returns local_server_port_, after Stop as
\* before; a Stop that tore the engine down has left it not Running with the
\* context it had; and no context is given to utrans_clean while the engine
\* object is alive.
C38_KeptAfterStop ==
    /\ \A t \in Threads :
          (pc[t] = "ret" /\ call[t].op = "GetBindPort") =>
              call[t].port = local_server_port_
    /\ (stoppedCtx # NullCtx /\ pc[MainThread] = "idle" /\ ~is_running_) =>
          (ctx_ # NullCtx /\ ~perf_logging_thread_running_ /\ perf_pc = "none")
    /\ \A c \in 1..created : cleanCount[c] > 0 => lifecycle # "alive"

\* C38, step part: a step of Stop changes nothing but is_running_,
\* perf_logging_thread_running_, the perf thread and the lock it holds.
C38_StopFrame ==
    \A t \in Threads :
        StopStep(t) =>
            UNCHANGED << ctx_, local_server_port_, read_timeout_ms_,
                         write_timeout_ms_, last_send_receive_time_,
                         send_retry_count, recv_retry_count, rdma_numa_node_,
                         nic_nodes_, backendVars >>

\* C38: Stop changes only the running flag, the perf running flag and the
\* perf thread: it leaves the backend context pointer, local_server_port_,
\* the timeouts and last_send_receive_time_ unchanged, so GetBindPort() after
\* Stop still returns the port bound by Start, and the context stays
\* allocated until the engine is destroyed.
C38_StopLeavesRest == [](C38_KeptAfterStop) /\ [][C38_StopFrame]_vars

C38_Witness ==
    \E t \in Threads :
        /\ pc[t] = "ret" /\ call[t].op = "GetBindPort"
        /\ call[t].port = local_server_port_ /\ local_server_port_ # 0
        /\ ~is_running_ /\ teardowns = 1 /\ startsOK = 1
        /\ ctx_ = 1 /\ stoppedCtx = 1 /\ cleanCount[1] = 0
        /\ last_send_receive_time_ = now

\* The engine holds a context but no Start has succeeded: context setup went
\* through and the listener bring-up failed.
ListenerFailed == startsOK = 0 /\ created > 0

\* C39, state part: after a Start that failed at the listener bring-up the
\* engine is not Running, has no worker, and holds the context while it is
\* alive; a Stop tears nothing down; a Send / Receive is rejected for its
\* arguments only, and a RegisterMemory has called the backend; and once the
\* engine is destroyed the context it held has been cleaned exactly once.
C39_HalfStarted ==
    ListenerFailed =>
        /\ ~is_running_ /\ perf_pc = "none" /\ ~perf_thread_joinable
        /\ teardowns = 0
        /\ lifecycle = "alive" => (ctx_ = created /\ cleanCount[ctx_] = 0)
        /\ \A t \in Threads :
              /\ pc[t] \notin {"stop_lock", "stop_check", "stop_perf",
                               "stop_join", "stop_finish"}
              /\ (pc[t] = "ret" /\ call[t].op = "Start") =>
                    /\ call[t].ret = "false"
                    /\ call[t].ctxOK =>
                          /\ Did(call[t].steps, "utrans_setup_rpcsrv")
                          /\ ~Did(call[t].steps, "is_running_")
                          /\ ctx_ # call[t].ctxBefore
              /\ (pc[t] = "ret" /\ IsXfer(call[t]) /\ call[t].attempts = 0) =>
                    FirstViolation(call[t], ctx_) \in {"data", "remote"}
              /\ (pc[t] = "ret" /\ call[t].op = "RegisterMemory") =>
                    call[t].regcalls = 1
        /\ lifecycle = "destroyed" =>
              (ctx_ = NullCtx /\ cleanCount[created] = 1)
        /\ \A c \in 1..created : cleanCount[c] <= 1

\* C39, step part: the context is cleaned by the destructor and by nothing
\* else.
C39_CleanedByDtor ==
    cleanCount' # cleanCount =>
        \E t \in Threads : pc[t] = "dtor_clean" /\ pc'[t] = "dtor_null"

====
